---- MODULE Spec2Model ----
(***************************************************************************)
(* Model of src/server.js: the /api/merge attribute join, the              *)
(* /api/interpolate worker orchestration, the CRS functions detectCRS and  *)
(* reprojectGeoJSON with the /api/upload-shapefile handler that calls      *)
(* them, the /api/generate-report worker with its timer, and the order of  *)
(* the registered routes.                                                  *)
(*                                                                         *)
(* JavaScript strings are sequences of one-character strings, so that      *)
(* trim(), toLowerCase() and the /\s*cm\s*/gi replacement are computed.    *)
(* A JavaScript scalar is a record [t, s]: t is the type tag and s the     *)
(* characters of a string or the decimal digits of a number.               *)
(***************************************************************************)
EXTENDS Integers, Sequences, FiniteSets, TLC

(***************************************************************************)
(* Bounds of the model.                                                    *)
(***************************************************************************)
MaxRows == 2
MaxFeatures == 2

(***************************************************************************)
(* JavaScript scalars and strings.                                         *)
(***************************************************************************)
Str(s) == [t |-> "str", s |-> s]
Num(digits) == [t |-> "num", s |-> digits]
Null == [t |-> "null", s |-> <<>>]
Undef == [t |-> "undef", s |-> <<>>]

\* Boolean coercion of a scalar: '', 0, null and undefined are falsy.
Truthy(v) ==
  CASE v.t = "str" -> v.s # <<>>
    [] v.t = "num" -> v.s # <<"0">>
    [] OTHER -> FALSE

\* String(v)
StringOf(v) ==
  CASE v.t = "str" -> v.s
    [] v.t = "num" -> v.s
    [] v.t = "null" -> <<"n", "u", "l", "l">>
    [] OTHER -> <<"u", "n", "d", "e", "f", "i", "n", "e", "d">>

\* v || ''
OrEmpty(v) == IF Truthy(v) THEN v ELSE Str(<<>>)

UpperCase ==
  <<"A", "B", "C", "D", "E", "F", "G", "H", "I", "J", "K", "L", "M",
    "N", "O", "P", "Q", "R", "S", "T", "U", "V", "W", "X", "Y", "Z">>

LowerCase ==
  <<"a", "b", "c", "d", "e", "f", "g", "h", "i", "j", "k", "l", "m",
    "n", "o", "p", "q", "r", "s", "t", "u", "v", "w", "x", "y", "z">>

UpperLower ==
  [c \in {UpperCase[i] : i \in DOMAIN UpperCase} |->
     LowerCase[CHOOSE i \in DOMAIN UpperCase : UpperCase[i] = c]]

LowerChar(c) == IF c \in DOMAIN UpperLower THEN UpperLower[c] ELSE c

\* String.prototype.toLowerCase
ToLowerCase(s) == [i \in 1..Len(s) |-> LowerChar(s[i])]

IsSpace(c) == c = " "

RECURSIVE TrimStart(_)
TrimStart(s) ==
  IF s # <<>> /\ IsSpace(Head(s)) THEN TrimStart(Tail(s)) ELSE s

RECURSIVE TrimEnd(_)
TrimEnd(s) ==
  IF s # <<>> /\ IsSpace(s[Len(s)]) THEN TrimEnd(SubSeq(s, 1, Len(s) - 1)) ELSE s

\* String.prototype.trim
Trim(s) == TrimEnd(TrimStart(s))

\* Number of whitespace characters of s from position i on.
RECURSIVE SpaceRun(_, _)
SpaceRun(s, i) ==
  IF i <= Len(s) /\ IsSpace(s[i]) THEN 1 + SpaceRun(s, i + 1) ELSE 0

\* s.replace(/\s*cm\s*/gi, ''), scanning from position i: the leftmost match
\* starts at the first whitespace of the run before "cm" and takes the
\* whitespace after it.
RECURSIVE StripCmFrom(_, _)
StripCmFrom(s, i) ==
  IF i > Len(s) THEN <<>>
  ELSE LET j == i + SpaceRun(s, i)
       IN IF j + 1 <= Len(s) /\ LowerChar(s[j]) = "c" /\ LowerChar(s[j + 1]) = "m"
          THEN StripCmFrom(s, j + 2 + SpaceRun(s, j + 2))
          ELSE <<s[i]>> \o StripCmFrom(s, i + 1)

StripCm(s) == StripCmFrom(s, 1)

\* s.includes(sub)
Includes(s, sub) ==
  \E i \in 1..(Len(s) - Len(sub) + 1) : SubSeq(s, i, i + Len(sub) - 1) = sub

\* obj[name]: undefined when the object has no such property.
Get(obj, name) == IF name \in DOMAIN obj THEN obj[name] ELSE Undef

\* { ...a, ...b }
Spread(a, b) ==
  [k \in DOMAIN a \cup DOMAIN b |-> IF k \in DOMAIN b THEN b[k] ELSE a[k]]

(***************************************************************************)
(* POST /api/merge                                                         *)
(***************************************************************************)
VARIABLES
  mergeReq,   \* body of the /api/merge request
  mergeRes    \* the response sent for it; status 0 until the handler has run

VARIABLES
  interpReq,   \* per request: the body received, NoBody before it arrives
  results,     \* per request: the results object (tiffFiles, interpolations)
  responses,   \* per request: the responses sent, in order
  workers,     \* every worker spawned so far, in spawn order
  tempFile,    \* uploads/temp_interpolation_data.geojson: 0 when absent,
               \* else the request whose collection it holds
  dirs,        \* the working directories that exist
  tiffs,       \* parameters whose {param}_{method}_interpolation.tif is in output/
  crashed      \* the server process died of an uncaught exception

VARIABLES
  prjString,   \* the projection description: text of the .prj file, or null
  detected,    \* what detectCRS(prjString) returned; NotDetected before the call
  uploadRes,   \* the response of /api/upload-shapefile; status 0 before it
  reprojIn,    \* arguments of a reprojectGeoJSON call and the proj4 in use
  reprojOut    \* what the call returned; done is FALSE before it

VARIABLES
  reportReq,     \* body of the /api/generate-report request, NoReportBody before it
  reportWorker,  \* the report worker: its state and pythonProcess.killed
  reportTimer,   \* the five-minute timer: "off", "armed" or "fired"
  reportCalls    \* the res.send / res.json calls made for the request, in order

VARIABLES
  routeReq,   \* a request handed to the router: its method and path
  routeRes    \* the layer that answered it and the status; status 0 before

mergeVars == <<mergeReq, mergeRes>>

reportVars == <<reportReq, reportWorker, reportTimer, reportCalls>>

routeVars == <<routeReq, routeRes>>

crsVars == <<prjString, detected, uploadRes, reprojIn, reprojOut>>

interpVars == <<interpReq, results, responses, workers, tempFile, dirs, tiffs, crashed>>

vars == <<mergeReq, mergeRes, interpReq, results, responses, workers, tempFile,
          dirs, tiffs, crashed, prjString, detected, uploadRes, reprojIn, reprojOut,
          reportReq, reportWorker, reportTimer, reportCalls, routeReq, routeRes>>

\* Column and attribute names.
ColID == <<"I", "D">>
ColFarm == <<"F", "a", "r", "m">>
ColProf == <<"P", "r", "o", "f">>
ColZn == <<"Z", "n">>

\* Lower-cased header names the depth column is looked up by.
NameProf == <<"p", "r", "o", "f">>
NameProfundidade == <<"p", "r", "o", "f", "u", "n", "d", "i", "d", "a", "d", "e">>

\* const depthColumn = Object.keys(spreadsheetData[0] || {}).find(...): the set
\* of columns of the first row that pass the test; find() returns the first
\* of them in key order, undefined when there is none.
DepthColumns(table) ==
  IF table = <<>> THEN {}
  ELSE {col \in DOMAIN table[1] :
          \/ ToLowerCase(col) = NameProf
          \/ ToLowerCase(col) = NameProfundidade
          \/ Includes(ToLowerCase(col), NameProf)}

\* selectedDepth.trim().replace(/\s*cm\s*/gi, '').toLowerCase()
NormalizeDepth(s) == ToLowerCase(StripCm(Trim(s)))

\* The predicate of spreadsheetData.filter(row => ...).
RowHasDepth(row, depthColumn, normalizedDepth) ==
  LET rowDepth == Get(row, depthColumn)
  IN /\ rowDepth.t \notin {"null", "undef"}
     /\ rowDepth # Str(<<"N", "U", "L", "L">>)
     /\ rowDepth # Str(<<>>)
     /\ Trim(StringOf(rowDepth)) # <<>>
     /\ NormalizeDepth(StringOf(rowDepth)) = normalizedDepth

RECURSIVE FilterRows(_, _, _)
FilterRows(table, depthColumn, normalizedDepth) ==
  IF table = <<>> THEN <<>>
  ELSE (IF RowHasDepth(Head(table), depthColumn, normalizedDepth)
        THEN <<Head(table)>> ELSE <<>>)
       \o FilterRows(Tail(table), depthColumn, normalizedDepth)

\* filteredSpreadsheetData: the table after the optional depth filter.
FilteredSpreadsheetData(table, selectedDepth) ==
  IF Truthy(selectedDepth) /\ DepthColumns(table) # {}
  THEN FilterRows(table, CHOOSE col \in DepthColumns(table) : TRUE,
                  NormalizeDepth(selectedDepth.s))
  ELSE table

\* Mutant: the depth filter is applied to the features as well.
FilteredShapefileFeaturesByDepth(features, selectedDepth) ==
  IF Truthy(selectedDepth)
  THEN LET Keep(f) == /\ Get(f.properties, ColProf).t = "str"
                      /\ NormalizeDepth(Get(f.properties, ColProf).s)
                           = NormalizeDepth(selectedDepth.s)
       IN SelectSeq(features, Keep)
  ELSE features

\* filteredShapefileGeoJson.features: a copy of the input features.
FilteredShapefileFeatures(features, selectedDepth) == features

\* String(row[spreadsheetColumn]).toLowerCase().trim()
RowKey(row, spreadsheetColumn) ==
  Trim(ToLowerCase(StringOf(Get(row, spreadsheetColumn))))

\* String(feature.properties[shapefileColumn] || '').toLowerCase().trim()
FeatureKey(properties, shapefileColumn) ==
  Trim(ToLowerCase(StringOf(OrEmpty(Get(properties, shapefileColumn)))))

\* Mutant: a key that is already in the map keeps its first row.
MapSetKeepFirst(map, key, row) ==
  [k \in DOMAIN map \cup {key} |-> IF k \in DOMAIN map THEN map[k] ELSE row]

\* spreadsheetMap.set(key, row)
MapSet(map, key, row) ==
  [k \in DOMAIN map \cup {key} |-> IF k = key THEN row ELSE map[k]]

\* filteredSpreadsheetData.forEach(row => spreadsheetMap.set(key, row)),
\* rows taken in table order.
RECURSIVE SpreadsheetMapFrom(_, _, _)
SpreadsheetMapFrom(map, rows, spreadsheetColumn) ==
  IF rows = <<>> THEN map
  ELSE SpreadsheetMapFrom(MapSet(map, RowKey(Head(rows), spreadsheetColumn), Head(rows)),
                          Tail(rows), spreadsheetColumn)

SpreadsheetMap(rows, spreadsheetColumn) ==
  SpreadsheetMapFrom(<<>>, rows, spreadsheetColumn)

\* Mutant: the spread is written the other way round, the feature's own
\* attributes win over the row's columns.
MergeFeatureFeatureWins(feature, map, shapefileColumn) ==
  LET key == FeatureKey(feature.properties, shapefileColumn)
  IN IF key \in DOMAIN map
     THEN [feature EXCEPT !.properties = Spread(map[key], feature.properties)]
     ELSE feature

\* The callback of features.map(...): the feature with the row's columns
\* spread over its properties when a row is found, else the feature itself.
MergeFeature(feature, map, shapefileColumn) ==
  LET key == FeatureKey(feature.properties, shapefileColumn)
  IN IF key \in DOMAIN map
     THEN [feature EXCEPT !.properties = Spread(feature.properties, map[key])]
     ELSE feature

\* Mutant: features without a row are filtered out of the result.
MergedFeaturesDropUnmatched(features, map, shapefileColumn) ==
  LET Matched(f) == FeatureKey(f.properties, shapefileColumn) \in DOMAIN map
      kept == SelectSeq(features, Matched)
  IN [i \in 1..Len(kept) |-> MergeFeature(kept[i], map, shapefileColumn)]

MergedFeatures(features, map, shapefileColumn) ==
  [i \in 1..Len(features) |-> MergeFeature(features[i], map, shapefileColumn)]

\* mergedFeatures.filter(f => spreadsheetMap.has(key of f)).length
MatchedCount(merged, map, shapefileColumn) ==
  Cardinality({i \in 1..Len(merged) :
                 FeatureKey(merged[i].properties, shapefileColumn) \in DOMAIN map})

NoResponse ==
  [status |-> 0, features |-> <<>>, matchedCount |-> 0, totalCount |-> 0,
   unmatchedCount |-> 0]

ErrorResponse(code) ==
  [status |-> code, features |-> <<>>, matchedCount |-> 0, totalCount |-> 0,
   unmatchedCount |-> 0]

\* Mutant: a rejected request is answered with the collection it carried.
MergeHandlerEchoesFeatures(req) ==
  [status |-> 400, features |-> req.features, matchedCount |-> 0,
   totalCount |-> Len(req.features), unmatchedCount |-> Len(req.features)]

\* The handler of POST /api/merge.
MergeHandler(req) ==
  IF \/ ~req.hasData
     \/ ~req.hasGeoJson
     \/ ~Truthy(req.spreadsheetColumn)
     \/ ~Truthy(req.shapefileColumn)
  THEN ErrorResponse(400)
  ELSE IF Truthy(req.selectedDepth) /\ req.selectedDepth.t # "str"
  THEN ErrorResponse(500)   \* selectedDepth.trim is not a function
  ELSE
    LET rows == FilteredSpreadsheetData(req.spreadsheetData, req.selectedDepth)
        feats == FilteredShapefileFeatures(req.features, req.selectedDepth)
        map == SpreadsheetMap(rows, req.spreadsheetColumn.s)
        merged == MergedFeatures(feats, map, req.shapefileColumn.s)
        matched == MatchedCount(merged, map, req.shapefileColumn.s)
    IN [status |-> 200, features |-> merged, matchedCount |-> matched,
        totalCount |-> Len(merged), unmatchedCount |-> Len(merged) - matched]

(***************************************************************************)
(* The requests the merge is checked on.                                   *)
(***************************************************************************)
SeqsUpTo(S, n) == UNION {[1..k -> S] : k \in 0..n}

\* Join values of the table: "A" and " a" normalize to the same key.
TableJoinValues == {Str(<<"A">>), Str(<<" ", "a">>)}

\* Rows of a table with a depth column: two rows of one key at the same
\* depth, a row of that key at another depth, and a row whose key is 0.
DepthRow(id, depth) ==
  [c \in {ColID, ColProf, ColZn} |->
     IF c = ColID THEN id ELSE IF c = ColProf THEN depth ELSE Num(<<"1">>)]

RowsWithDepth ==
  { DepthRow(Str(<<"A">>), Str(<<"0", "-", "2", "0", " ", "C", "M">>)),
    DepthRow(Str(<<" ", "a">>), Str(<<"0", "-", "2", "0", " ", "C", "M">>)),
    DepthRow(Str(<<"A">>), Str(<<"2", "0", "-", "4", "0">>)),
    DepthRow(Num(<<"0">>), Str(<<"2", "0", "-", "4", "0">>)) }

\* Rows of a table without a depth column that has a column named like the
\* join attribute of the features.
RowsWithFarm ==
  {[c \in {ColID, ColFarm, ColZn} |->
      IF c = ColID THEN id ELSE IF c = ColFarm THEN Str(<<"Z">>) ELSE Num(<<"2">>)] :
     id \in TableJoinValues}

Tables == SeqsUpTo(RowsWithDepth, MaxRows) \cup SeqsUpTo(RowsWithFarm, MaxRows)

\* Attributes of a feature: a join value that matches after normalization,
\* one that matches nothing, the number 0, and no join attribute at all.
PropertiesSet ==
  { [c \in {ColFarm, ColZn} |-> IF c = ColFarm THEN Str(<<"a", " ">>) ELSE Num(<<"9">>)],
    [c \in {ColFarm} |-> Str(<<"B">>)],
    [c \in {ColFarm} |-> Num(<<"0">>)],
    [c \in {ColZn} |-> Num(<<"9">>)] }

\* The i-th feature carries geometry i.
FeatureCollections ==
  {[i \in 1..Len(ps) |-> [geometry |-> i, properties |-> ps[i]]] :
     ps \in SeqsUpTo(PropertiesSet, MaxFeatures)}

DepthChoices ==
  {Undef, Str(<<"0", "-", "2", "0", " ", "c", "m">>), Str(<<"4", "0">>)}

CompleteMergeRequests ==
  [hasData : {TRUE}, spreadsheetData : Tables,
   hasGeoJson : {TRUE}, features : FeatureCollections,
   spreadsheetColumn : {Str(ColID)},
   shapefileColumn : {Str(ColFarm)},
   selectedDepth : DepthChoices]

\* Requests with a field missing, and one with a numeric selectedDepth.
OddMergeRequests ==
  LET base == [hasData |-> TRUE, spreadsheetData |-> <<>>,
               hasGeoJson |-> TRUE, features |-> <<>>,
               spreadsheetColumn |-> Str(ColID), shapefileColumn |-> Str(ColFarm),
               selectedDepth |-> Undef]
  IN { [base EXCEPT !.hasData = FALSE],
       [base EXCEPT !.hasGeoJson = FALSE],
       [base EXCEPT !.spreadsheetColumn = Undef],
       [base EXCEPT !.shapefileColumn = Str(<<>>)],
       [base EXCEPT !.selectedDepth = Num(<<"2", "0">>)] }

\* The request of the end-to-end scenario: one row {Farm:"A", Prof:"0-20",
\* Zn:1.2}, one point feature with Farm:"A", join Farm/Farm, depth "0-20 cm".
ScenarioRow ==
  [c \in {ColFarm, ColProf, ColZn} |->
     IF c = ColFarm THEN Str(<<"A">>)
     ELSE IF c = ColProf THEN Str(<<"0", "-", "2", "0">>)
     ELSE Num(<<"1", ".", "2">>)]

ScenarioFeature ==
  [geometry |-> 1, properties |-> [c \in {ColFarm} |-> Str(<<"A">>)]]

ScenarioMergeRequest ==
  [hasData |-> TRUE, spreadsheetData |-> <<ScenarioRow>>,
   hasGeoJson |-> TRUE, features |-> <<ScenarioFeature>>,
   spreadsheetColumn |-> Str(ColFarm), shapefileColumn |-> Str(ColFarm),
   selectedDepth |-> Str(<<"0", "-", "2", "0", " ", "c", "m">>)]

\* Tables whose depth column holds the markers of a missing value (null and
\* the text "NULL") beside a depth, under the depth "null": the text the
\* depth selector of the page offers for a column that holds "NULL".
MarkerRows ==
  { DepthRow(Str(<<"A">>), Str(<<"N", "U", "L", "L">>)),
    DepthRow(Str(<<"A">>), Null),
    DepthRow(Str(<<"A">>), Str(<<"2", "0", "-", "4", "0">>)) }

MarkerMergeRequests ==
  [hasData : {TRUE}, spreadsheetData : SeqsUpTo(MarkerRows, MaxRows) \ {<<>>},
   hasGeoJson : {TRUE},
   features : {<<[geometry |-> 1,
                  properties |-> [c \in {ColFarm} |-> Str(<<"a", " ">>)]]>>},
   spreadsheetColumn : {Str(ColID)},
   shapefileColumn : {Str(ColFarm)},
   selectedDepth : {Str(<<"n", "u", "l", "l">>)}]

MergeRequests ==
  CompleteMergeRequests \cup OddMergeRequests \cup {ScenarioMergeRequest}
    \cup MarkerMergeRequests

MergeInit ==
  /\ mergeReq \in MergeRequests
  /\ mergeRes = NoResponse

\* The handler runs once on the request and sends its response.
Merge ==
  /\ mergeRes.status = 0
  /\ mergeRes' = MergeHandler(mergeReq)
  /\ UNCHANGED mergeReq
  /\ UNCHANGED interpVars
  /\ UNCHANGED crsVars
  /\ UNCHANGED reportVars
  /\ UNCHANGED routeVars

MergeNext == Merge

(***************************************************************************)
(* POST /api/interpolate                                                   *)
(***************************************************************************)
MaxParams == 2

Requests == {1, 2}

AllParameters == <<"Zn", "Cu", "Fe", "Mn">>

FieldNames == {"geoJson", "parameters", "method", "resolution", "searchRadius"}

NoBody ==
  [fields |-> {}, parametersIsArray |-> FALSE, parameters |-> <<>>,
   boundsComputable |-> FALSE, arrived |-> FALSE]

\* Bodies that pass validation: every field present and a non-empty
\* parameter array.  boundsComputable is FALSE for a collection on which
\* the bounds computation throws (a non-Point geometry with no coordinate).
ValidBodies ==
  [fields : {FieldNames}, parametersIsArray : {TRUE},
   parameters : {SubSeq(AllParameters, 1, n) : n \in 1..MaxParams},
   boundsComputable : BOOLEAN, arrived : {TRUE}]

InvalidBodies ==
  [fields : {FieldNames \ {f} : f \in FieldNames}, parametersIsArray : {TRUE},
   parameters : {<<"Zn">>}, boundsComputable : {TRUE}, arrived : {TRUE}]
  \cup
  [fields : {FieldNames}, parametersIsArray : BOOLEAN,
   parameters : {<<>>}, boundsComputable : {TRUE}, arrived : {TRUE}]
  \cup
  [fields : {FieldNames}, parametersIsArray : {FALSE},
   parameters : {<<"Zn">>}, boundsComputable : {TRUE}, arrived : {TRUE}]

Bodies == ValidBodies \cup InvalidBodies

\* const results = { success: true, method, bounds: null, tiffFiles: {},
\*                   interpolations: {} }
EmptyResults == [tiffFiles |-> <<>>, interpolations |-> <<>>]

\* obj[param] = value
SetProp(obj, param, value) ==
  [k \in DOMAIN obj \cup {param} |-> IF k = param THEN value ELSE obj[k]]

NoStatistics == [min |-> 0, max |-> 0, mean |-> 0, std |-> 0]

FailedResult(text) ==
  [success |-> FALSE, error |-> text, tiffFile |-> "", statistics |-> NoStatistics]

\* What a worker can print: the STATS marker line (or not) and a std marker
\* (or not).  Statistics are counted in quarters: 4 stands for 1.0.
WorkerStdout(hasStats, hasStd) ==
  [hasStats |-> hasStats, min |-> 4, max |-> 12, mean |-> 8, hasStd |-> hasStd, std |-> 3]

WorkerStdouts ==
  {WorkerStdout(FALSE, FALSE), WorkerStdout(TRUE, FALSE), WorkerStdout(TRUE, TRUE)}

\* Lines 998-1011: statistics parsed from the worker's stdout.
ParseStatistics(stdout) ==
  LET min == IF stdout.hasStats THEN stdout.min ELSE 0
      max == IF stdout.hasStats THEN stdout.max ELSE 4
      mean == IF stdout.hasStats THEN stdout.mean ELSE 2
      std == IF stdout.hasStd THEN stdout.std ELSE (max - min) \div 4
  IN [min |-> min, max |-> max, mean |-> mean, std |-> std]

\* Lines 988-995: the artifact reference recorded for the parameter.
TiffReference(param, copyOk) ==
  IF copyOk THEN "/output/" \o param \o "_descriptive.tif"
  ELSE "/output/" \o param \o "_interpolation.tif"

\* Mutant: a job whose output carries no STATS marker is recorded as failed.
RecordCloseNeedsStats(res, param, code, tiffExists, copyOk, stdout, stderr) ==
  IF code = 0 /\ tiffExists /\ stdout.hasStats
  THEN LET ref == TiffReference(param, copyOk)
       IN [tiffFiles |-> SetProp(res.tiffFiles, param, ref),
           interpolations |->
             SetProp(res.interpolations, param,
                     [success |-> TRUE, error |-> "", tiffFile |-> ref,
                      statistics |-> ParseStatistics(stdout)])]
  ELSE [res EXCEPT !.interpolations =
          SetProp(@, param,
                  FailedResult(IF stderr # "" THEN stderr ELSE "Erro desconhecido"))]

\* The results object after the 'close' handler of a worker for param has
\* recorded its outcome (lines 970-1041).
RecordClose(res, param, code, tiffExists, copyOk, stdout, stderr) ==
  IF code = 0
  THEN IF tiffExists
       THEN LET ref == TiffReference(param, copyOk)
            IN [tiffFiles |-> SetProp(res.tiffFiles, param, ref),
                interpolations |->
                  SetProp(res.interpolations, param,
                          [success |-> TRUE, error |-> "", tiffFile |-> ref,
                           statistics |-> ParseStatistics(stdout)])]
       ELSE [res EXCEPT !.interpolations =
               SetProp(@, param, FailedResult("Arquivo TIFF nao foi gerado"))]
  ELSE [res EXCEPT !.interpolations =
          SetProp(@, param,
                  FailedResult(IF stderr # "" THEN stderr ELSE "Erro desconhecido"))]

\* Mutant: the 'error' handler starts the results over, keeping only the
\* failed parameter.
RecordErrorDropsEarlier(res, param) ==
  [tiffFiles |-> <<>>,
   interpolations |-> SetProp(<<>>, param, FailedResult("Erro ao executar Python"))]

\* The results object after the 'error' handler (lines 1044-1049).
RecordError(res, param) ==
  [res EXCEPT !.interpolations =
     SetProp(@, param, FailedResult("Erro ao executar Python"))]

\* spawn(pythonCmd, args, ...): a new worker for position idx of request r.
\* launched is FALSE when the process could not be started: node then emits
\* 'error' and, after it, 'close' with a negative code.
\* code, tiffSeen and hasStats record what the 'close' handler was given
\* (exit code, fs.existsSync of the artifact, STATS marker in stdout); they
\* are meaningful once st is "closed".
Spawn(ws, r, idx, launched) ==
  Append(ws, [req |-> r, idx |-> idx,
              st |-> IF launched THEN "running" ELSE "failing",
              code |-> 0, tiffSeen |-> FALSE, hasStats |-> FALSE])

\* The worker's entry once its 'close' handler has run.
Closed(ws, w, code, tiffSeen, hasStats) ==
  [ws EXCEPT ![w] = [@ EXCEPT !.st = "closed", !.code = code,
                              !.tiffSeen = tiffSeen, !.hasStats = hasStats]]

\* Mutant: the batch is answered as soon as a parameter has failed.
ProcessParameterAbortsOnFailure(r, idx, ws, res) ==
  IF \/ idx > Len(interpReq[r].parameters)
     \/ ~res.interpolations[interpReq[r].parameters[idx - 1]].success
  THEN /\ tempFile' = 0
       /\ IF responses[r] = <<>>
          THEN /\ responses' = [responses EXCEPT ![r] = <<[status |-> 200, body |-> res]>>]
               /\ crashed' = crashed
          ELSE /\ responses' = responses
               /\ crashed' = TRUE
       /\ workers' = ws
  ELSE /\ \E launched \in BOOLEAN : workers' = Spawn(ws, r, idx, launched)
       /\ UNCHANGED <<tempFile, responses, crashed>>

\* Mutant: the end of the list is tested one position early.
ProcessParameterStopsEarly(r, idx, ws, res) ==
  IF idx >= Len(interpReq[r].parameters)
  THEN /\ tempFile' = 0
       /\ IF responses[r] = <<>>
          THEN /\ responses' = [responses EXCEPT ![r] = <<[status |-> 200, body |-> res]>>]
               /\ crashed' = crashed
          ELSE /\ responses' = responses
               /\ crashed' = TRUE
       /\ workers' = ws
  ELSE /\ \E launched \in BOOLEAN : workers' = Spawn(ws, r, idx, launched)
       /\ UNCHANGED <<tempFile, responses, crashed>>

\* Mutant: the temporary file is left in place when the request is answered.
ProcessParameterLeavesFile(r, idx, ws, res) ==
  IF idx > Len(interpReq[r].parameters)
  THEN /\ tempFile' = tempFile
       /\ IF responses[r] = <<>>
          THEN /\ responses' = [responses EXCEPT ![r] = <<[status |-> 200, body |-> res]>>]
               /\ crashed' = crashed
          ELSE /\ responses' = responses
               /\ crashed' = TRUE
       /\ workers' = ws
  ELSE /\ \E launched \in BOOLEAN : workers' = Spawn(ws, r, idx, launched)
       /\ UNCHANGED <<tempFile, responses, crashed>>

\* processParameter(idx) of request r, called with the workers ws and the
\* results res its caller leaves: past the last parameter it removes the
\* temporary file (a failure to remove it is only logged) and calls
\* res.json(results); otherwise it spawns the worker of parameter idx.
\* res.json on a request already answered throws ERR_HTTP_HEADERS_SENT; the
\* caller is an event handler, nothing catches it and the process dies.
ProcessParameter(r, idx, ws, res) ==
  IF idx > Len(interpReq[r].parameters)
  THEN /\ tempFile' = 0
       /\ IF responses[r] = <<>>
          THEN /\ responses' = [responses EXCEPT ![r] = <<[status |-> 200, body |-> res]>>]
               /\ crashed' = crashed
          ELSE /\ responses' = responses
               /\ crashed' = TRUE
       /\ workers' = ws
  ELSE /\ \E launched \in BOOLEAN : workers' = Spawn(ws, r, idx, launched)
       /\ UNCHANGED <<tempFile, responses, crashed>>

ErrorBody == EmptyResults

\* The route handler up to its first call of processParameter (lines 855-1055).
Interpolate(r, body) ==
  /\ ~crashed
  /\ ~interpReq[r].arrived
  /\ interpReq' = [interpReq EXCEPT ![r] = body]
  /\ IF body.fields # FieldNames
     THEN /\ responses' = [responses EXCEPT ![r] = Append(@, [status |-> 400, body |-> ErrorBody])]
          /\ UNCHANGED <<results, workers, tempFile, dirs, tiffs>>
     ELSE IF ~body.parametersIsArray \/ Len(body.parameters) = 0
     THEN /\ responses' = [responses EXCEPT ![r] = Append(@, [status |-> 400, body |-> ErrorBody])]
          /\ UNCHANGED <<results, workers, tempFile, dirs, tiffs>>
     ELSE IF "uploads" \notin dirs
     THEN \* fs.writeFileSync throws ENOENT; the catch answers 500
          /\ responses' = [responses EXCEPT ![r] = Append(@, [status |-> 500, body |-> ErrorBody])]
          /\ UNCHANGED <<results, workers, tempFile, dirs, tiffs>>
     ELSE IF ~body.boundsComputable
     THEN \* the temporary file and output/ are written, then the bounds throw
          /\ tempFile' = r
          /\ dirs' = dirs \cup {"output"}
          /\ responses' = [responses EXCEPT ![r] = Append(@, [status |-> 500, body |-> ErrorBody])]
          /\ UNCHANGED <<results, workers, tiffs>>
     ELSE /\ tempFile' = r
          /\ dirs' = dirs \cup {"output"}
          /\ results' = [results EXCEPT ![r] = EmptyResults]
          /\ \E launched \in BOOLEAN : workers' = Spawn(workers, r, 1, launched)
          /\ UNCHANGED <<responses, tiffs>>
  /\ UNCHANGED crashed
  /\ UNCHANGED mergeVars
  /\ UNCHANGED crsVars
  /\ UNCHANGED reportVars
  /\ UNCHANGED routeVars

\* A running worker writes its output artifact into output/.
WorkerWritesTiff(w) ==
  LET param == interpReq[workers[w].req].parameters[workers[w].idx]
  IN /\ ~crashed
     /\ workers[w].st = "running"
     /\ param \notin tiffs
     /\ tiffs' = tiffs \cup {param}
     /\ UNCHANGED <<interpReq, results, responses, workers, tempFile, dirs, crashed>>
     /\ UNCHANGED mergeVars
     /\ UNCHANGED crsVars
     /\ UNCHANGED reportVars
     /\ UNCHANGED routeVars

\* How a launched worker can end: its exit code, whether the copy of the
\* artifact to its descriptive name succeeds, and what it printed.
NoStdout == WorkerStdout(FALSE, FALSE)

WorkerExits ==
  [code : {0}, copyOk : {TRUE}, stdout : WorkerStdouts, stderr : {""}]
  \cup
  [code : {0}, copyOk : {FALSE}, stdout : {NoStdout}, stderr : {""}]
  \cup
  [code : {1}, copyOk : {TRUE}, stdout : {NoStdout}, stderr : {"", "Traceback"}]

\* pythonProcess.on('close') for a worker that ran.
WorkerClose(w, exit) ==
  LET r == workers[w].req
      idx == workers[w].idx
      param == interpReq[r].parameters[idx]
      res == RecordClose(results[r], param, exit.code, param \in tiffs,
                         exit.copyOk, exit.stdout, exit.stderr)
  IN /\ ~crashed
     /\ workers[w].st = "running"
     /\ results' = [results EXCEPT ![r] = res]
     /\ ProcessParameter(r, idx + 1,
                         Closed(workers, w, exit.code, param \in tiffs, exit.stdout.hasStats),
                         res)
     /\ UNCHANGED <<interpReq, dirs, tiffs>>
     /\ UNCHANGED mergeVars
     /\ UNCHANGED crsVars
     /\ UNCHANGED reportVars
     /\ UNCHANGED routeVars

\* pythonProcess.on('error'): the worker could not be launched.
WorkerError(w) ==
  LET r == workers[w].req
      idx == workers[w].idx
      param == interpReq[r].parameters[idx]
      res == RecordError(results[r], param)
  IN /\ ~crashed
     /\ workers[w].st = "failing"
     /\ results' = [results EXCEPT ![r] = res]
     /\ ProcessParameter(r, idx + 1, [workers EXCEPT ![w].st = "errored"], res)
     /\ UNCHANGED <<interpReq, dirs, tiffs>>
     /\ UNCHANGED mergeVars
     /\ UNCHANGED crsVars
     /\ UNCHANGED reportVars
     /\ UNCHANGED routeVars

\* pythonProcess.on('close') of the same worker after its 'error': the code
\* is negative and nothing was printed.
WorkerCloseAfterError(w) ==
  LET r == workers[w].req
      idx == workers[w].idx
      param == interpReq[r].parameters[idx]
      res == RecordClose(results[r], param, -2, param \in tiffs, FALSE, NoStdout, "")
  IN /\ ~crashed
     /\ workers[w].st = "errored"
     /\ results' = [results EXCEPT ![r] = res]
     /\ ProcessParameter(r, idx + 1, Closed(workers, w, -2, param \in tiffs, FALSE), res)
     /\ UNCHANGED <<interpReq, dirs, tiffs>>
     /\ UNCHANGED mergeVars
     /\ UNCHANGED crsVars
     /\ UNCHANGED reportVars
     /\ UNCHANGED routeVars

InterpInit ==
  /\ interpReq = [r \in Requests |-> NoBody]
  /\ results = [r \in Requests |-> EmptyResults]
  /\ responses = [r \in Requests |-> <<>>]
  /\ workers = <<>>
  /\ tempFile = 0
  /\ dirs \in {{}, {"uploads"}}
  /\ tiffs = {}
  /\ crashed = FALSE

(***************************************************************************)
(* detectCRS                                                               *)
(***************************************************************************)
Digits == <<"0", "1", "2", "3", "4", "5", "6", "7", "8", "9">>

IsDigit(c) == \E i \in DOMAIN Digits : Digits[i] = c

DigitValue(c) == (CHOOSE i \in DOMAIN Digits : Digits[i] = c) - 1

\* parseInt(digits) of a run of decimal digits
RECURSIVE ParseInt(_)
ParseInt(digits) ==
  IF digits = <<>> THEN 0
  ELSE 10 * ParseInt(SubSeq(digits, 1, Len(digits) - 1)) + DigitValue(digits[Len(digits)])

\* `${n}` of an integer n >= 0
RECURSIVE NumberToString(_)
NumberToString(n) ==
  IF n < 10 THEN <<Digits[n + 1]>>
  ELSE NumberToString(n \div 10) \o <<Digits[(n % 10) + 1]>>

\* String.prototype.toUpperCase on one character
UpperChar(c) ==
  IF \E i \in DOMAIN LowerCase : LowerCase[i] = c
  THEN UpperCase[CHOOSE i \in DOMAIN LowerCase : LowerCase[i] = c]
  ELSE c

\* Length of the run matched by [_\s]* from position i on.
RECURSIVE SeparatorRun(_, _)
SeparatorRun(s, i) ==
  IF i <= Len(s) /\ (s[i] = "_" \/ IsSpace(s[i])) THEN 1 + SeparatorRun(s, i + 1) ELSE 0

\* Length of the run matched by \d+ from position i on.
RECURSIVE DigitRun(_, _)
DigitRun(s, i) ==
  IF i <= Len(s) /\ IsDigit(s[i]) THEN 1 + DigitRun(s, i + 1) ELSE 0

ZoneDigitsStart(s, i) == i + 4 + SeparatorRun(s, i + 4)

ZoneDigitsEnd(s, i) == ZoneDigitsStart(s, i) + DigitRun(s, ZoneDigitsStart(s, i))

\* /Zone[_\s]*(\d+)([NS])/i matches at position i: both runs are greedy and
\* what follows each of them cannot be matched by giving characters back.
ZoneMatchAt(s, i) ==
  /\ i + 3 <= Len(s)
  /\ ToLowerCase(SubSeq(s, i, i + 3)) = <<"z", "o", "n", "e">>
  /\ ZoneDigitsEnd(s, i) > ZoneDigitsStart(s, i)
  /\ ZoneDigitsEnd(s, i) <= Len(s)
  /\ LowerChar(s[ZoneDigitsEnd(s, i)]) \in {"n", "s"}

\* prjString.match(...): the positions the pattern matches at; match()
\* returns the leftmost, null when there is none.
ZoneMatches(s) == {i \in 1..Len(s) : ZoneMatchAt(s, i)}

ZoneMatch(s) == CHOOSE i \in ZoneMatches(s) : \A j \in ZoneMatches(s) : i <= j

\* parseInt(zoneMatch[1])
ZoneOf(s) ==
  ParseInt(SubSeq(s, ZoneDigitsStart(s, ZoneMatch(s)), ZoneDigitsEnd(s, ZoneMatch(s)) - 1))

\* zoneMatch[2].toUpperCase()
HemisphereOf(s) == UpperChar(s[ZoneDigitsEnd(s, ZoneMatch(s))])

\* Mutant: the offsets of the two hemispheres are exchanged.
EpsgCodeHemispheresExchanged(zone, hemisphere) ==
  IF hemisphere = "S" THEN 32600 + zone ELSE 32700 + zone

\* hemisphere === 'S' ? 32700 + zone : 32600 + zone
EpsgCode(zone, hemisphere) ==
  IF hemisphere = "S" THEN 32700 + zone ELSE 32600 + zone

\* `EPSG:${epsgCode}`
EpsgName(code) == <<"E", "P", "S", "G", ":">> \o NumberToString(code)

EPSG4674 == <<"E", "P", "S", "G", ":", "4", "6", "7", "4">>
EPSG4326 == <<"E", "P", "S", "G", ":", "4", "3", "2", "6">>
EPSG32721 == <<"E", "P", "S", "G", ":", "3", "2", "7", "2", "1">>
SentinelUTM == <<"U", "T", "M">>
SentinelProjected == <<"P", "R", "O", "J", "E", "C", "T", "E", "D">>

MarkerUTM == <<"U", "T", "M">>
MarkerTransverseMercator == <<"T", "r", "a", "n", "s", "v", "e", "r", "s", "e", "_", "M", "e", "r", "c", "a", "t", "o", "r">>
MarkerSirgas == <<"S", "I", "R", "G", "A", "S">>
Marker4674 == <<"4", "6", "7", "4">>
MarkerGcsSirgas == <<"G", "C", "S", "_", "S", "I", "R", "G", "A", "S", "2", "0", "0", "0">>
MarkerWGS84 == <<"W", "G", "S", "8", "4">>
Marker4326 == <<"4", "3", "2", "6">>
MarkerGcsWgs == <<"G", "C", "S", "_", "W", "G", "S", "_", "1", "9", "8", "4">>
MarkerPROJCS == <<"P", "R", "O", "J", "C", "S">>

HasUtmMarker(s) == Includes(s, MarkerUTM) \/ Includes(s, MarkerTransverseMercator)

HasRegionalMarker(s) ==
  Includes(s, MarkerSirgas) \/ Includes(s, Marker4674) \/ Includes(s, MarkerGcsSirgas)

HasGlobalMarker(s) ==
  Includes(s, MarkerWGS84) \/ Includes(s, Marker4326) \/ Includes(s, MarkerGcsWgs)

\* Mutant: the global markers are looked for before the regional ones.
DetectCRSGlobalFirst(prj) ==
  IF ~Truthy(prj) THEN EPSG4674
  ELSE IF HasUtmMarker(prj.s)
  THEN (IF ZoneMatches(prj.s) # {}
        THEN EpsgName(EpsgCode(ZoneOf(prj.s), HemisphereOf(prj.s)))
        ELSE SentinelUTM)
  ELSE IF HasGlobalMarker(prj.s) /\ ~Includes(prj.s, MarkerPROJCS) THEN EPSG4326
  ELSE IF HasRegionalMarker(prj.s) THEN EPSG4674
  ELSE IF Includes(prj.s, MarkerPROJCS) THEN SentinelProjected
  ELSE EPSG4674

\* detectCRS(prjString), prjString being a string, null or undefined.
DetectCRS(prj) ==
  IF ~Truthy(prj) THEN EPSG4674
  ELSE IF HasUtmMarker(prj.s)
  THEN (IF ZoneMatches(prj.s) # {}
        THEN EpsgName(EpsgCode(ZoneOf(prj.s), HemisphereOf(prj.s)))
        ELSE IF Includes(prj.s, <<"Z", "o", "n", "e", "_", "2", "1", "S">>) \/ Includes(prj.s, <<"Z", "o", "n", "e", " ", "2", "1", "S">>)
        THEN EPSG32721
        ELSE SentinelUTM)
  ELSE IF HasRegionalMarker(prj.s) THEN EPSG4674
  ELSE IF /\ HasGlobalMarker(prj.s)
          /\ ~Includes(prj.s, MarkerUTM)
          /\ ~Includes(prj.s, MarkerPROJCS)
  THEN EPSG4326
  ELSE IF Includes(prj.s, MarkerPROJCS) THEN SentinelProjected
  ELSE EPSG4674

(***************************************************************************)
(* reprojectGeoJSON                                                        *)
(***************************************************************************)
\* A JavaScript number: an integer value or NaN.
Real(v) == [nan |-> FALSE, v |-> v]
NaN == [nan |-> TRUE, v |-> 0]

IsNaN(n) == n.nan

\* Math.abs(n) > limit, false on NaN
AbsAbove(n, limit) == ~n.nan /\ (n.v > limit \/ n.v < 0 - limit)

\* A coordinates value: a position [x, y], or an array of coordinates values.
Position(x, y) == [kind |-> "position", xy |-> <<x, y>>, items |-> <<>>]
Array(items) == [kind |-> "array", xy |-> <<>>, items |-> items]

\* The positions the model transforms: a UTM 21S easting/northing and a
\* position in degrees.
PointUTM == <<Real(500000), Real(7500000)>>
PointDegrees == <<Real(0 - 57), Real(0 - 23)>>

\* What transform.forward([x, y]) does on a position: it returns a pair of
\* numbers or throws.
Returns(lon, lat) == [throws |-> FALSE, xy |-> <<lon, lat>>]
Throws == [throws |-> TRUE, xy |-> <<>>]

\* The behaviours of transform.forward on the two positions: on PointUTM a
\* pair in range, two pairs out of range, a pair with NaN, or a throw.
Forwards ==
  [{PointUTM} -> {Returns(Real(0 - 57), Real(0 - 23)), Returns(Real(200), Real(50)),
                  Returns(Real(50), Real(95)), Returns(NaN, Real(0 - 23)), Throws}]
  \X [{PointDegrees} -> {Returns(Real(0 - 56), Real(0 - 22)), Throws}]

ForwardOf(forward, xy) == IF xy = PointUTM THEN forward[1][xy] ELSE forward[2][xy]

\* Mutant: a position with NaN, or whose transform has NaN, becomes [0, 0].
TransformPositionZeroOnNaN(xy, forward) ==
  IF IsNaN(xy[1]) \/ IsNaN(xy[2]) THEN <<Real(0), Real(0)>>
  ELSE LET transformed == ForwardOf(forward, xy)
       IN IF transformed.throws THEN xy
          ELSE IF IsNaN(transformed.xy[1]) \/ IsNaN(transformed.xy[2])
          THEN <<Real(0), Real(0)>>
          ELSE transformed.xy

\* The first branch of transformCoordinates: coords is a position.
TransformPosition(xy, forward) ==
  IF IsNaN(xy[1]) \/ IsNaN(xy[2]) THEN xy
  ELSE LET transformed == ForwardOf(forward, xy)
       IN IF transformed.throws THEN xy
          ELSE IF IsNaN(transformed.xy[1]) \/ IsNaN(transformed.xy[2]) THEN xy
          ELSE LET lon == transformed.xy[1]
                   lat == transformed.xy[2]
               IN IF /\ (AbsAbove(lon, 180) \/ AbsAbove(lat, 90))
                     /\ (AbsAbove(transformed.xy[2], 180) \/ AbsAbove(transformed.xy[1], 90))
                  THEN <<lat, lon>>
                  ELSE <<lon, lat>>

\* transformCoordinates(coords)
RECURSIVE TransformCoordinates(_, _)
TransformCoordinates(coords, forward) ==
  IF coords.kind = "position"
  THEN [coords EXCEPT !.xy = TransformPosition(coords.xy, forward)]
  ELSE [coords EXCEPT !.items =
          [i \in DOMAIN coords.items |-> TransformCoordinates(coords.items[i], forward)]]

\* The callback of geojson.features.map(...).
ReprojectFeature(feature, forward) ==
  IF ~feature.hasGeometry \/ ~feature.hasCoordinates THEN feature
  ELSE [feature EXCEPT !.coordinates = TransformCoordinates(feature.coordinates, forward)]

\* The names proj4 has a definition for.
Proj4Definitions == {EPSG4674, EPSG4326, EPSG32721}

Built == [kind |-> "built"]
ReturnGeojson == [kind |-> "return"]
Thrown == [kind |-> "thrown"]

\* proj4(from, to): a converter, or a throw when a name has no definition.
Proj4(from, to) ==
  IF from \in Proj4Definitions /\ to \in Proj4Definitions THEN Built ELSE Thrown

StartsWith(s, prefix) ==
  Len(prefix) <= Len(s) /\ SubSeq(s, 1, Len(prefix)) = prefix

\* The try block that creates the transform: fromCRS.startsWith throws on a
\* fromCRS that is not a string.
CreateTransform(fromCRS, toCRS) ==
  IF fromCRS.t # "str" THEN Thrown
  ELSE IF fromCRS.s \in {EPSG32721, <<"3", "2", "7", "2", "1">>} THEN Proj4(EPSG32721, EPSG4326)
  ELSE IF StartsWith(fromCRS.s, <<"E", "P", "S", "G", ":", "3", "2", "7">>) \/ StartsWith(fromCRS.s, <<"E", "P", "S", "G", ":", "3", "2", "6">>)
  THEN Proj4(fromCRS.s, EPSG4326)
  ELSE IF fromCRS.s \in {EPSG4674, <<"4", "6", "7", "4">>} THEN Proj4(EPSG4674, EPSG4326)
  ELSE IF fromCRS.s \in {SentinelUTM, SentinelProjected} THEN ReturnGeojson
  ELSE Proj4(fromCRS.s, toCRS)

\* Mutant: the catch block lets the error of the second attempt escape.
CatchCreateErrorRethrows(fromCRS, toCRS) ==
  IF fromCRS.t = "str" /\ Proj4(fromCRS.s, toCRS) = Built THEN Built ELSE Thrown

\* The catch block: a second proj4(fromCRS, toCRS), and return geojson when
\* that throws as well.
CatchCreateError(fromCRS, toCRS) ==
  IF fromCRS.t = "str" /\ Proj4(fromCRS.s, toCRS) = Built THEN Built ELSE ReturnGeojson

\* Mutant: only fromCRS === toCRS skips the reprojection.
AlreadyInTargetOnlyWhenSame(fromCRS, toCRS) ==
  fromCRS.t = "str" /\ fromCRS.s = toCRS

\* fromCRS === toCRS || (fromCRS === 'EPSG:4326' || fromCRS === '4326')
AlreadyInTarget(fromCRS, toCRS) ==
  /\ fromCRS.t = "str"
  /\ (fromCRS.s = toCRS \/ fromCRS.s = EPSG4326 \/ fromCRS.s = <<"4", "3", "2", "6">>)

\* The positions of coords that are handed to transform.forward.
RECURSIVE ForwardCalls(_)
ForwardCalls(coords) ==
  IF coords.kind = "position"
  THEN (IF IsNaN(coords.xy[1]) \/ IsNaN(coords.xy[2]) THEN {} ELSE {coords.xy})
  ELSE UNION {ForwardCalls(coords.items[i]) : i \in DOMAIN coords.items}

FeatureCalls(feature) ==
  IF ~feature.hasGeometry \/ ~feature.hasCoordinates THEN {}
  ELSE ForwardCalls(feature.coordinates)

\* The outcome of a call: raised says an exception left the function,
\* applied that a transform was created and the features were mapped, calls
\* holds the positions transform.forward was called on.
Returned(features, applied, calls) ==
  [done |-> TRUE, raised |-> FALSE, features |-> features, applied |-> applied,
   calls |-> calls]

Raised ==
  [done |-> TRUE, raised |-> TRUE, features |-> <<>>, applied |-> FALSE, calls |-> {}]

NotCalled ==
  [done |-> FALSE, raised |-> FALSE, features |-> <<>>, applied |-> FALSE, calls |-> {}]

\* reprojectGeoJSON(geojson, fromCRS, toCRS) with the proj4 module loaded or
\* not and forward the behaviour of the transform that proj4 creates.
ReprojectGeoJSON(features, fromCRS, toCRS, proj4Loaded, forward) ==
  IF ~proj4Loaded THEN Returned(features, FALSE, {})
  ELSE IF AlreadyInTarget(fromCRS, toCRS) THEN Returned(features, FALSE, {})
  ELSE LET first == CreateTransform(fromCRS, toCRS)
           transform == IF first = Thrown THEN CatchCreateError(fromCRS, toCRS) ELSE first
       IN IF transform = Thrown THEN Raised
          ELSE IF transform = ReturnGeojson THEN Returned(features, FALSE, {})
          ELSE Returned([i \in DOMAIN features |-> ReprojectFeature(features[i], forward)],
                        TRUE,
                        UNION {FeatureCalls(features[i]) : i \in DOMAIN features})

(***************************************************************************)
(* The calls detectCRS and reprojectGeoJSON are checked on.                *)
(***************************************************************************)
MaxParts == 3

\* Pieces of a projection description.
DescriptionParts ==
  { MarkerUTM, MarkerTransverseMercator, MarkerSirgas, MarkerWGS84, MarkerPROJCS,
    <<"Z", "o", "n", "e", "_", "2", "1", "S">>,
    <<"z", "o", "n", "e", " ", "5", "n">> }

RECURSIVE Concat(_)
Concat(parts) == IF parts = <<>> THEN <<>> ELSE Head(parts) \o Concat(Tail(parts))

\* Descriptions with the other markers and other ways of writing the zone.
OtherDescriptions ==
  { <<"G", "E", "O", "G", "C", "S", "[", "G", "C", "S", "_", "S", "I", "R", "G", "A", "S", "2", "0", "0", "0", "]">>,
    <<"E", "P", "S", "G", " ", "4", "6", "7", "4">>,
    <<"G", "E", "O", "G", "C", "S", "[", "G", "C", "S", "_", "W", "G", "S", "_", "1", "9", "8", "4", "]">>,
    <<"E", "P", "S", "G", " ", "4", "3", "2", "6">>,
    <<"P", "R", "O", "J", "C", "S", "[", "W", "G", "S", "_", "1", "9", "8", "4", "_", "U", "T", "M", "_", "Z", "o", "n", "e", "_", "6", "0", "N", "]">>,
    <<"U", "T", "M", " ", "Z", "o", "n", "e", " ", "_", " ", "0", "7", "S">>,
    <<"U", "T", "M", "_", "Z", "o", "n", "e", "_", "2", "2", "_", "S", "o", "u", "t", "h">>,
    <<"U", "T", "M", " ", "Z", "o", "n", "e", " ", "2", "1">> }

Descriptions ==
  {Concat(parts) : parts \in SeqsUpTo(DescriptionParts, MaxParts)} \cup OtherDescriptions

\* No description is null (no .prj in the archive), undefined (no .prj file
\* beside the .shp) or the empty text of an empty .prj.
PrjStrings == {Null, Undef} \cup {Str(d) : d \in Descriptions}

NotDetected == <<>>

\* The features a reprojection is checked on: a point, a point with NaN, a
\* line of two positions, a polygon of one ring, a feature without geometry
\* and one whose geometry has no coordinates.
NoCoordinates == Array(<<>>)

Geometries ==
  { [hasGeometry |-> TRUE, hasCoordinates |-> TRUE,
     coordinates |-> Position(PointUTM[1], PointUTM[2])],
    [hasGeometry |-> TRUE, hasCoordinates |-> TRUE,
     coordinates |-> Position(Real(500000), NaN)],
    [hasGeometry |-> TRUE, hasCoordinates |-> TRUE,
     coordinates |-> Array(<<Position(PointUTM[1], PointUTM[2]),
                             Position(PointDegrees[1], PointDegrees[2])>>)],
    [hasGeometry |-> TRUE, hasCoordinates |-> TRUE,
     coordinates |-> Array(<<Array(<<Position(PointUTM[1], PointUTM[2]),
                                     Position(PointDegrees[1], PointDegrees[2]),
                                     Position(PointUTM[1], PointUTM[2])>>)>>)],
    [hasGeometry |-> FALSE, hasCoordinates |-> FALSE, coordinates |-> NoCoordinates],
    [hasGeometry |-> TRUE, hasCoordinates |-> FALSE, coordinates |-> NoCoordinates] }

GeoCollections == SeqsUpTo(Geometries, MaxFeatures)

\* Identifiers proj4 has no definition for, the sentinels of detectCRS and a
\* fromCRS that is no string.
UnsupportedIdentifiers ==
  { Str(<<"E", "P", "S", "G", ":", "3", "2", "7", "2", "2">>), Str(<<"E", "S", "R", "I", ":", "1", "0", "2", "0", "3", "3">>), Str(SentinelUTM), Str(SentinelProjected),
    Undef }

SupportedIdentifiers ==
  { Str(EPSG32721), Str(<<"3", "2", "7", "2", "1">>), Str(EPSG4674), Str(<<"4", "6", "7", "4">>), Str(EPSG4326),
    Str(<<"4", "3", "2", "6">>) }

ReprojectCalls ==
  [features : GeoCollections, fromCRS : SupportedIdentifiers \cup UnsupportedIdentifiers,
   toCRS : {EPSG4326}, proj4Loaded : {TRUE}, forward : Forwards]
  \cup
  [features : {c \in GeoCollections : Len(c) = 1},
   fromCRS : {Str(EPSG32721), Str(EPSG4674), Str(<<"4", "6", "7", "4">>), Str(EPSG4326)},
   toCRS : {EPSG4674}, proj4Loaded : {TRUE}, forward : Forwards]
  \cup
  [features : {c \in GeoCollections : Len(c) = 1},
   fromCRS : {Str(EPSG32721)},
   toCRS : {EPSG4326}, proj4Loaded : {FALSE}, forward : Forwards]

NoReprojectCall ==
  [features |-> <<>>, fromCRS |-> Str(EPSG4326), toCRS |-> EPSG4326,
   proj4Loaded |-> TRUE,
   forward |-> <<[xy \in {PointUTM} |-> Throws], [xy \in {PointDegrees} |-> Throws]>>]

(***************************************************************************)
(* POST /api/upload-shapefile: CRS resolution and reprojection             *)
(***************************************************************************)
NoUpload == [status |-> 0, detectedCRS |-> NotDetected, features |-> <<>>]

UploadError(code) == [status |-> code, detectedCRS |-> NotDetected, features |-> <<>>]

\* What the archive holds and whether shapefile.js is loaded.
UploadFlags ==
  LET all == [hasFile |-> TRUE, isZip |-> TRUE, hasShp |-> TRUE,
              shapefileLib |-> TRUE, hasFeatures |-> TRUE]
  IN { all, [all EXCEPT !.hasFile = FALSE], [all EXCEPT !.isZip = FALSE],
       [all EXCEPT !.hasShp = FALSE], [all EXCEPT !.shapefileLib = FALSE],
       [all EXCEPT !.hasFeatures = FALSE] }

\* The behaviours of transform.forward an upload is checked with: every one
\* on the uploaded point when the archive is read, one otherwise.
UploadForwards(flags) ==
  IF \A name \in DOMAIN flags : flags[name]
  THEN {forward \in Forwards : forward[2][PointDegrees] = Throws}
  ELSE {NoReprojectCall.forward}

\* The features read from the .shp of the upload: one point.
UploadedFeatures ==
  <<[hasGeometry |-> TRUE, hasCoordinates |-> TRUE,
     coordinates |-> Position(PointUTM[1], PointUTM[2])]>>

\* let detectedCRS = 'EPSG:4326'; if (prjString) detectedCRS = detectCRS(prjString)
UploadDetectedCRS(prj) == IF Truthy(prj) THEN DetectCRS(prj) ELSE EPSG4326

\* The handler of POST /api/upload-shapefile.
UploadHandler(flags, prj, forward) ==
  IF ~flags.hasFile \/ ~flags.isZip \/ ~flags.hasShp THEN UploadError(400)
  ELSE IF ~flags.shapefileLib THEN UploadError(500)
  ELSE IF ~flags.hasFeatures THEN UploadError(400)
  ELSE LET detectedCRS == UploadDetectedCRS(prj)
           geojson ==
             IF detectedCRS # EPSG4326 /\ detectedCRS # EPSG4674
             THEN ReprojectGeoJSON(UploadedFeatures, Str(detectedCRS), EPSG4326, TRUE, forward)
             ELSE IF detectedCRS = EPSG4674
             THEN ReprojectGeoJSON(UploadedFeatures, Str(EPSG4674), EPSG4326, TRUE, forward)
             ELSE Returned(UploadedFeatures, FALSE, {})
       IN IF geojson.raised THEN UploadError(500)
          ELSE [status |-> 200, detectedCRS |-> detectedCRS, features |-> geojson.features]

CrsIdle ==
  /\ prjString = Null
  /\ detected = NotDetected
  /\ uploadRes = NoUpload
  /\ reprojIn = NoReprojectCall
  /\ reprojOut = NotCalled

\* detectCRS is called on the description.
Detect ==
  /\ detected = NotDetected
  /\ detected' = DetectCRS(prjString)
  /\ UNCHANGED <<prjString, uploadRes, reprojIn, reprojOut>>
  /\ UNCHANGED mergeVars
  /\ UNCHANGED interpVars
  /\ UNCHANGED reportVars
  /\ UNCHANGED routeVars

\* An archive whose .prj holds the description (none when it is null) is
\* uploaded.
UploadShapefile(flags, forward) ==
  /\ uploadRes.status = 0
  /\ prjString # Undef
  /\ uploadRes' = UploadHandler(flags, prjString, forward)
  /\ UNCHANGED <<prjString, detected, reprojIn, reprojOut>>
  /\ UNCHANGED mergeVars
  /\ UNCHANGED interpVars
  /\ UNCHANGED reportVars
  /\ UNCHANGED routeVars

\* reprojectGeoJSON is called.
Reproject ==
  /\ ~reprojOut.done
  /\ reprojOut' = ReprojectGeoJSON(reprojIn.features, reprojIn.fromCRS, reprojIn.toCRS,
                                   reprojIn.proj4Loaded, reprojIn.forward)
  /\ UNCHANGED <<prjString, detected, uploadRes, reprojIn>>
  /\ UNCHANGED mergeVars
  /\ UNCHANGED interpVars
  /\ UNCHANGED reportVars
  /\ UNCHANGED routeVars

(***************************************************************************)
(* POST /api/generate-report                                               *)
(***************************************************************************)
NoReportBody ==
  [complete |-> FALSE, tiffFiles |-> {}, reportsWritable |-> FALSE, arrived |-> FALSE]

\* complete: propertyName, plotName, interpolations and tiffFiles are there;
\* tiffFiles: the parameters whose '/output/...' artifact the body names;
\* reportsWritable: the test write into reports/ succeeds.
ReportBodies ==
  [complete : BOOLEAN, tiffFiles : {{}, {"Zn"}, {"Zn", "Cu"}},
   reportsWritable : BOOLEAN, arrived : {TRUE}]

\* Lines 1184-1204: the artifacts named by the body that exist on disk.
ValidTiffs(tiffFiles) == {p \in tiffFiles : "output" \in dirs /\ p \in tiffs}

NoReportWorker == [st |-> "none", killed |-> FALSE]

ReportAnswer(status, kind) == [status |-> status, kind |-> kind]

\* res.send / res.json for the request.  A call on a request that was
\* answered throws ERR_HTTP_HEADERS_SENT; the callers below are event and
\* timer callbacks, nothing catches it and the process dies.
ReportRespond(answer) ==
  /\ reportCalls' = Append(reportCalls, answer)
  /\ crashed' = (crashed \/ reportCalls # <<>>)

\* How the report worker can exit by itself: its code, whether the PDF is
\* there, and whether its output mentions a permission error.
ReportExits ==
  [code : {0}, pdfExists : BOOLEAN, permission : {FALSE}]
  \cup
  [code : {1}, pdfExists : {FALSE}, permission : BOOLEAN]

\* The exit of a worker that the timer killed (code null, here -1), and of
\* one that could not be launched (a negative code).
KilledExit == [code |-> -1, pdfExists |-> FALSE, permission |-> FALSE]

FailedLaunchExit == [code |-> -2, pdfExists |-> FALSE, permission |-> FALSE]

\* What the 'close' handler answers (lines 1315-1387).
CloseAnswer(exit) ==
  IF exit.code = 0
  THEN IF exit.pdfExists
       THEN ReportAnswer(200, "pdf")
       ELSE ReportAnswer(500, "PDF nao foi gerado")
  ELSE IF exit.permission
       THEN ReportAnswer(500, "Erro de permissao ao salvar PDF")
       ELSE ReportAnswer(500, "Erro ao gerar PDF")

\* The route handler up to the arming of the timer (lines 1138-1281, 1400,
\* 1411-1419).
GenerateReport(body) ==
  /\ ~crashed
  /\ ~reportReq.arrived
  /\ reportReq' = body
  /\ IF ~body.complete
     THEN /\ ReportRespond(ReportAnswer(400, "Dados incompletos"))
          /\ UNCHANGED <<reportWorker, reportTimer, dirs>>
     ELSE /\ dirs' = dirs \cup {"reports"}
          /\ IF ValidTiffs(body.tiffFiles) = {}
             THEN /\ ReportRespond(ReportAnswer(400, "Nenhum arquivo TIFF valido"))
                  /\ UNCHANGED <<reportWorker, reportTimer>>
             ELSE IF ~body.reportsWritable
             THEN /\ ReportRespond(ReportAnswer(500, "Erro de permissao no diretorio"))
                  /\ UNCHANGED <<reportWorker, reportTimer>>
             ELSE /\ \E launched \in BOOLEAN :
                       reportWorker' = [st |-> IF launched THEN "running" ELSE "failing",
                                        killed |-> FALSE]
                  /\ reportTimer' = "armed"
                  /\ UNCHANGED <<reportCalls, crashed>>
  /\ UNCHANGED <<interpReq, results, responses, workers, tempFile, tiffs>>
  /\ UNCHANGED mergeVars
  /\ UNCHANGED crsVars
  /\ UNCHANGED routeVars

\* pythonProcess.on('close') of a worker that ran and exited by itself.
ReportClose(exit) ==
  /\ ~crashed
  /\ reportWorker.st = "running"
  /\ reportWorker' = [reportWorker EXCEPT !.st = "closed"]
  /\ ReportRespond(CloseAnswer(exit))
  /\ UNCHANGED <<reportReq, reportTimer>>
  /\ UNCHANGED <<interpReq, results, responses, workers, tempFile, dirs, tiffs>>
  /\ UNCHANGED mergeVars
  /\ UNCHANGED crsVars
  /\ UNCHANGED routeVars

\* pythonProcess.on('close') of the worker the timer killed.
ReportCloseKilled ==
  /\ ~crashed
  /\ reportWorker.st = "killed"
  /\ reportWorker' = [reportWorker EXCEPT !.st = "closed"]
  /\ ReportRespond(CloseAnswer(KilledExit))
  /\ UNCHANGED <<reportReq, reportTimer>>
  /\ UNCHANGED <<interpReq, results, responses, workers, tempFile, dirs, tiffs>>
  /\ UNCHANGED mergeVars
  /\ UNCHANGED crsVars
  /\ UNCHANGED routeVars

\* pythonProcess.on('error'): the worker could not be launched (lines
\* 1389-1397).
ReportError ==
  /\ ~crashed
  /\ reportWorker.st = "failing"
  /\ reportWorker' = [reportWorker EXCEPT !.st = "errored"]
  /\ ReportRespond(ReportAnswer(500, "Erro ao executar Python"))
  /\ UNCHANGED <<reportReq, reportTimer>>
  /\ UNCHANGED <<interpReq, results, responses, workers, tempFile, dirs, tiffs>>
  /\ UNCHANGED mergeVars
  /\ UNCHANGED crsVars
  /\ UNCHANGED routeVars

\* pythonProcess.on('close') of the same worker after its 'error'.
ReportCloseAfterError ==
  /\ ~crashed
  /\ reportWorker.st = "errored"
  /\ reportWorker' = [reportWorker EXCEPT !.st = "closed"]
  /\ ReportRespond(CloseAnswer(FailedLaunchExit))
  /\ UNCHANGED <<reportReq, reportTimer>>
  /\ UNCHANGED <<interpReq, results, responses, workers, tempFile, dirs, tiffs>>
  /\ UNCHANGED mergeVars
  /\ UNCHANGED crsVars
  /\ UNCHANGED routeVars

\* The callback of setTimeout(..., 5 * 60 * 1000) (lines 1400-1409).  The
\* events of a failed launch are delivered in the ticks after spawn, so the
\* timer finds the worker running or closed.  pythonProcess.killed is set
\* by a kill() that sent the signal: it is false for a worker that exited by
\* itself, and kill() on such a worker does nothing.
ReportTimeout ==
  /\ ~crashed
  /\ reportTimer = "armed"
  /\ reportWorker.st \in {"running", "closed"}
  /\ reportTimer' = "fired"
  /\ IF ~reportWorker.killed
     THEN /\ reportWorker' = IF reportWorker.st = "running"
                             THEN [st |-> "killed", killed |-> TRUE]
                             ELSE reportWorker
          /\ ReportRespond(ReportAnswer(500, "Timeout ao gerar PDF"))
     ELSE UNCHANGED <<reportWorker, reportCalls, crashed>>
  /\ UNCHANGED reportReq
  /\ UNCHANGED <<interpReq, results, responses, workers, tempFile, dirs, tiffs>>
  /\ UNCHANGED mergeVars
  /\ UNCHANGED crsVars
  /\ UNCHANGED routeVars

ReportIdle ==
  /\ reportReq = NoReportBody
  /\ reportWorker = NoReportWorker
  /\ reportTimer = "off"
  /\ reportCalls = <<>>

(***************************************************************************)
(* The router: the layers in the order server.js registers them.  A path   *)
(* is the sequence of its segments.                                        *)
(***************************************************************************)
Middleware(handler) ==
  [kind |-> "middleware", method |-> "", path |-> <<>>, handler |-> handler]

Route(method, path, handler) ==
  [kind |-> "route", method |-> method, path |-> path, handler |-> handler]

Static(mount, root) ==
  [kind |-> "static", method |-> "GET", path |-> mount, handler |-> root]

Layers ==
  << Middleware("cors"),
     Middleware("express.json"),
     Route("POST", <<"api", "upload-spreadsheet">>, "upload-spreadsheet"),
     Route("POST", <<"api", "upload-shapefile">>, "upload-shapefile"),
     Route("POST", <<"api", "merge">>, "merge"),
     Route("POST", <<"api", "interpolate">>, "interpolate"),
     Static(<<"output">>, "output"),
     Route("POST", <<"api", "upload-boundary-shapefile">>, "upload-boundary-shapefile"),
     Route("POST", <<"api", "generate-report">>, "generate-report"),
     Static(<<"reports">>, "reports"),
     Static(<<>>, "public"),
     [kind |-> "error", method |-> "", path |-> <<>>, handler |-> "error"],
     [kind |-> "use", method |-> "", path |-> <<"api", "*">>, handler |-> "apiNotFound"],
     Route("POST", <<"api", "cleanup">>, "cleanup"),
     Route("GET", <<"healthz">>, "healthz") >>

\* The files express.static finds under a root: the artifacts in output/,
\* the page in public/; the files of reports/ are not modelled.
StaticFiles(root) ==
  IF root = "output" THEN IF "output" \in dirs THEN {<<p>> : p \in tiffs} ELSE {}
  ELSE IF root = "public" THEN {<<"index.html">>}
  ELSE {}

\* The layer ends the request: a route on its method and exact path, the
\* static middleware on a GET of a file it has, app.use('/api/*') on every
\* method and every path under /api/.  cors and express.json call next(),
\* and the error middleware is skipped when no error was raised.
Handles(layer, method, path) ==
  IF layer.kind = "route" THEN method = layer.method /\ path = layer.path
  ELSE IF layer.kind = "static"
  THEN /\ method = "GET"
       /\ StartsWith(path, layer.path)
       /\ SubSeq(path, Len(layer.path) + 1, Len(path)) \in StaticFiles(layer.handler)
  ELSE IF layer.kind = "use" THEN Len(path) >= 2 /\ path[1] = layer.path[1]
  ELSE FALSE

\* The handler that answers: the first layer that ends the request, or
\* express's own 404 when none does.
Dispatch(method, path) ==
  LET hits == {i \in DOMAIN Layers : Handles(Layers[i], method, path)}
  IN IF hits = {} THEN "finalhandler"
     ELSE Layers[CHOOSE i \in hits : \A j \in hits : i <= j].handler

NoRouteRequest == [method |-> "", path |-> <<>>]

NoRouteResponse == [status |-> 0, handler |-> "", success |-> FALSE]

RouteMethods == {"GET", "POST"}

RoutePaths ==
  { <<"api", "cleanup">>, <<"api", "unknown">>, <<"healthz">>, <<"index.html">>,
    <<"output", "Zn">>, <<"cleanup">> }

\* The handlers a request of RouteMethods x RoutePaths can reach.
RouteHandlers == {"cleanup", "healthz", "apiNotFound", "output", "public", "finalhandler"}

\* One request goes through the router and the handler it reaches runs.
\* The cleanup handler (lines 1447-1466) empties uploads/ and output/ when
\* they exist and answers success.
HandleRequest(method, path) ==
  LET handler == Dispatch(method, path)
  IN /\ ~crashed
     /\ routeRes.status = 0
     /\ handler \in RouteHandlers
     /\ routeReq' = [method |-> method, path |-> path]
     /\ IF handler = "cleanup"
        THEN /\ tempFile' = IF "uploads" \in dirs THEN 0 ELSE tempFile
             /\ tiffs' = IF "output" \in dirs THEN {} ELSE tiffs
             /\ routeRes' = [status |-> 200, handler |-> handler, success |-> TRUE]
        ELSE /\ UNCHANGED <<tempFile, tiffs>>
             /\ routeRes' =
                  [status |-> IF handler \in {"apiNotFound", "finalhandler"} THEN 404 ELSE 200,
                   handler |-> handler, success |-> FALSE]
     /\ UNCHANGED <<interpReq, results, responses, workers, dirs, crashed>>
     /\ UNCHANGED mergeVars
     /\ UNCHANGED crsVars
     /\ UNCHANGED reportVars

RouteIdle ==
  /\ routeReq = NoRouteRequest
  /\ routeRes = NoRouteResponse

(***************************************************************************)
(* Specifications.                                                         *)
(***************************************************************************)
\* The merge handler on every request of MergeRequests.
SpecMergeInit ==
  MergeInit /\ InterpInit /\ dirs = {} /\ CrsIdle /\ ReportIdle /\ RouteIdle

SpecMerge == SpecMergeInit /\ [][MergeNext]_vars

\* One /api/interpolate request and its workers.
SpecInterpolateInit ==
  /\ mergeReq \in {m \in OddMergeRequests : ~m.hasData}
  /\ mergeRes = NoResponse
  /\ InterpInit
  /\ CrsIdle
  /\ ReportIdle
  /\ RouteIdle

InterpNext ==
  \/ \E body \in Bodies : Interpolate(1, body)
  \/ \E w \in DOMAIN workers : WorkerWritesTiff(w)
  \/ \E w \in DOMAIN workers : \E exit \in WorkerExits : WorkerClose(w, exit)
  \/ \E w \in DOMAIN workers : WorkerError(w)
  \/ \E w \in DOMAIN workers : WorkerCloseAfterError(w)

SpecInterpolate == SpecInterpolateInit /\ [][InterpNext]_vars

\* One /api/interpolate request for a list one parameter longer than those
\* of SpecInterpolate, on a deployment where uploads/ exists.
LongBodies ==
  [fields : {FieldNames}, parametersIsArray : {TRUE},
   parameters : {SubSeq(AllParameters, 1, MaxParams + 1)},
   boundsComputable : {TRUE}, arrived : {TRUE}]

SpecInterpolateLongInit == SpecInterpolateInit /\ dirs = {"uploads"}

InterpLongNext ==
  \/ \E body \in LongBodies : Interpolate(1, body)
  \/ \E w \in DOMAIN workers : WorkerWritesTiff(w)
  \/ \E w \in DOMAIN workers : \E exit \in WorkerExits : WorkerClose(w, exit)
  \/ \E w \in DOMAIN workers : WorkerError(w)
  \/ \E w \in DOMAIN workers : WorkerCloseAfterError(w)

SpecInterpolateLong == SpecInterpolateLongInit /\ [][InterpLongNext]_vars

\* Requests that are rejected as input errors: the scenario's request with
\* the table, the collection or a join column missing, and bodies of
\* /api/interpolate that fail validation, beside requests that pass.
RejectedMergeRequests ==
  { [ScenarioMergeRequest EXCEPT !.hasData = FALSE, !.spreadsheetData = <<>>],
    [ScenarioMergeRequest EXCEPT !.hasGeoJson = FALSE],
    [ScenarioMergeRequest EXCEPT !.spreadsheetColumn = Undef],
    [ScenarioMergeRequest EXCEPT !.spreadsheetColumn = Str(<<>>)],
    [ScenarioMergeRequest EXCEPT !.shapefileColumn = Null],
    [ScenarioMergeRequest EXCEPT !.shapefileColumn = Str(<<>>)] }

ShortBodies == {b \in ValidBodies : Len(b.parameters) = 1}

SpecInputErrorsInit ==
  /\ mergeReq \in RejectedMergeRequests \cup {ScenarioMergeRequest}
  /\ mergeRes = NoResponse
  /\ InterpInit
  /\ CrsIdle
  /\ ReportIdle
  /\ RouteIdle

InputErrorsNext ==
  \/ Merge
  \/ \E body \in InvalidBodies \cup ShortBodies : Interpolate(1, body)
  \/ \E w \in DOMAIN workers : WorkerWritesTiff(w)
  \/ \E w \in DOMAIN workers : \E exit \in WorkerExits : WorkerClose(w, exit)
  \/ \E w \in DOMAIN workers : WorkerError(w)
  \/ \E w \in DOMAIN workers : WorkerCloseAfterError(w)

SpecInputErrors == SpecInputErrorsInit /\ [][InputErrorsNext]_vars

\* Two /api/interpolate requests for one parameter each, on a deployment
\* where uploads/ exists; the handlers of both run on one event loop and
\* share uploads/temp_interpolation_data.geojson and output/.
ConcurrentBodies == {b \in ShortBodies : b.boundsComputable}

SpecConcurrentInit == SpecInterpolateInit /\ dirs = {"uploads"}

ConcurrentNext ==
  \/ \E r \in Requests : \E body \in ConcurrentBodies : Interpolate(r, body)
  \/ \E w \in DOMAIN workers : WorkerWritesTiff(w)
  \/ \E w \in DOMAIN workers : \E exit \in WorkerExits : WorkerClose(w, exit)
  \/ \E w \in DOMAIN workers : WorkerError(w)
  \/ \E w \in DOMAIN workers : WorkerCloseAfterError(w)

SpecConcurrent == SpecConcurrentInit /\ [][ConcurrentNext]_vars

\* The other handlers at rest.
HandlersIdle ==
  /\ mergeReq \in {m \in OddMergeRequests : ~m.hasData}
  /\ mergeRes = NoResponse
  /\ InterpInit
  /\ dirs = {}
  /\ ReportIdle
  /\ RouteIdle

\* detectCRS and the upload handler on every description of PrjStrings.
SpecDetectCRSInit ==
  /\ HandlersIdle
  /\ prjString \in PrjStrings
  /\ detected = NotDetected
  /\ uploadRes = NoUpload
  /\ reprojIn = NoReprojectCall
  /\ reprojOut = NotCalled

DetectNext ==
  \/ Detect
  \/ \E flags \in UploadFlags : \E forward \in UploadForwards(flags) :
        UploadShapefile(flags, forward)

SpecDetectCRS == SpecDetectCRSInit /\ [][DetectNext]_vars

\* reprojectGeoJSON on every call of ReprojectCalls.
SpecReprojectInit ==
  /\ HandlersIdle
  /\ prjString = Null
  /\ detected = NotDetected
  /\ uploadRes = NoUpload
  /\ reprojIn \in ReprojectCalls
  /\ reprojOut = NotCalled

ReprojectNext == Reproject

SpecReproject == SpecReprojectInit /\ [][ReprojectNext]_vars

\* One /api/generate-report request, its worker and its timer, on a
\* deployment where reports/ may be left from an earlier run.
SpecReportInit ==
  /\ mergeReq \in {m \in OddMergeRequests : ~m.hasData}
  /\ mergeRes = NoResponse
  /\ interpReq = [r \in Requests |-> NoBody]
  /\ results = [r \in Requests |-> EmptyResults]
  /\ responses = [r \in Requests |-> <<>>]
  /\ workers = <<>>
  /\ tempFile = 0
  /\ dirs \in SUBSET {"output", "reports"}
  /\ tiffs \in (IF "output" \in dirs THEN SUBSET {"Zn", "Cu"} ELSE {{}})
  /\ crashed = FALSE
  /\ CrsIdle
  /\ ReportIdle
  /\ RouteIdle

ReportNext ==
  \/ \E body \in ReportBodies : GenerateReport(body)
  \/ \E exit \in ReportExits : ReportClose(exit)
  \/ ReportCloseKilled
  \/ ReportError
  \/ ReportCloseAfterError
  \/ ReportTimeout

SpecReport == SpecReportInit /\ [][ReportNext]_vars

\* One request through the router, on a deployment whose directories hold
\* what earlier runs of the server left in them.
SpecRoutesInit ==
  /\ mergeReq \in {m \in OddMergeRequests : ~m.hasData}
  /\ mergeRes = NoResponse
  /\ interpReq = [r \in Requests |-> NoBody]
  /\ results = [r \in Requests |-> EmptyResults]
  /\ responses = [r \in Requests |-> <<>>]
  /\ workers = <<>>
  /\ dirs \in SUBSET {"uploads", "output", "reports"}
  /\ tempFile \in (IF "uploads" \in dirs THEN {0, 1} ELSE {0})
  /\ tiffs \in (IF "output" \in dirs THEN SUBSET {"Zn", "Cu"} ELSE {{}})
  /\ crashed = FALSE
  /\ CrsIdle
  /\ ReportIdle
  /\ RouteIdle

RoutesNext ==
  \E method \in RouteMethods : \E path \in RoutePaths : HandleRequest(method, path)

SpecRoutes == SpecRoutesInit /\ [][RoutesNext]_vars


(***************************************************************************)
(* Properties of /api/merge, checked under SpecMerge.                      *)
(***************************************************************************)
MergeDone == mergeRes.status = 200

\* The table rows the join uses, and the rows whose key is that of feature i.
JoinRows == FilteredSpreadsheetData(mergeReq.spreadsheetData, mergeReq.selectedDepth)

RowsOfFeature(i) ==
  {k \in 1..Len(JoinRows) :
     RowKey(JoinRows[k], mergeReq.spreadsheetColumn.s)
       = FeatureKey(mergeReq.features[i].properties, mergeReq.shapefileColumn.s)}

\* Feature i of the response is not the input feature: a row was spread over it.
Overlaid(i) == mergeRes.features[i] # mergeReq.features[i]

\* C1: a successful merge returns as many features as it was given, the i-th
\* output feature being the i-th input feature's geometry, and totalCount is
\* that number, whatever matched.
C1_MergeKeepsEveryFeature ==
  MergeDone =>
    /\ Len(mergeRes.features) = Len(mergeReq.features)
    /\ \A i \in 1..Len(mergeReq.features) :
         mergeRes.features[i].geometry = mergeReq.features[i].geometry
    /\ mergeRes.totalCount = Len(mergeReq.features)

\* A merge of two features under a depth filter, the first matched and the
\* second not.
C1_Witness ==
  /\ MergeDone
  /\ Truthy(mergeReq.selectedDepth)
  /\ Len(mergeReq.features) = 2
  /\ Overlaid(1)
  /\ ~Overlaid(2)

\* No row of the table has a depth that normalizes to the selected depth.
NoRowAtSelectedDepth ==
  /\ Truthy(mergeReq.selectedDepth)
  /\ DepthColumns(mergeReq.spreadsheetData) # {}
  /\ \A k \in 1..Len(mergeReq.spreadsheetData) :
       \A col \in DepthColumns(mergeReq.spreadsheetData) :
         NormalizeDepth(StringOf(Get(mergeReq.spreadsheetData[k], col)))
           # NormalizeDepth(mergeReq.selectedDepth.s)

\* C2: when a depth filter is given and no row of the table is at that
\* depth, the merge returns every input feature unchanged and matchedCount 0:
\* the depth filter removes nothing on the feature side.
C2_DepthFilterIsTableOnly ==
  (MergeDone /\ NoRowAtSelectedDepth) =>
    /\ mergeRes.features = mergeReq.features
    /\ mergeRes.matchedCount = 0

\* Such a merge in which a feature has the join key of a table row, so that
\* it would have matched without the filter.
C2_Witness ==
  /\ MergeDone
  /\ NoRowAtSelectedDepth
  /\ Len(mergeReq.features) = 2
  /\ \E i \in 1..Len(mergeReq.features), k \in 1..Len(mergeReq.spreadsheetData) :
       RowKey(mergeReq.spreadsheetData[k], mergeReq.spreadsheetColumn.s)
         = FeatureKey(mergeReq.features[i].properties, mergeReq.shapefileColumn.s)

\* C8: matchedCount is the number of output features a table row was spread
\* over, unmatchedCount is totalCount - matchedCount, and matchedCount lies
\* between 0 and totalCount.
C8_MatchedCountCountsOverlaid ==
  MergeDone =>
    /\ mergeRes.matchedCount
         = Cardinality({i \in 1..Len(mergeReq.features) : RowsOfFeature(i) # {}})
    /\ mergeRes.unmatchedCount = mergeRes.totalCount - mergeRes.matchedCount
    /\ mergeRes.matchedCount >= 0
    /\ mergeRes.matchedCount <= mergeRes.totalCount

\* The join value of a scalar as the table side computes it.
NormalizedJoinValue(v) == Trim(ToLowerCase(StringOf(v)))

\* C9: a feature receives a table row exactly when the string form of its
\* join value, lower-cased and trimmed, equals that of a row of the join
\* table, whatever scalar the join value is (0, '', null, missing included).
C9_SameKeyOnBothSides ==
  MergeDone =>
    \A i \in 1..Len(mergeReq.features) :
      Overlaid(i) <=>
        \E k \in 1..Len(JoinRows) :
          NormalizedJoinValue(Get(JoinRows[k], mergeReq.spreadsheetColumn.s))
            = NormalizedJoinValue(Get(mergeReq.features[i].properties,
                                      mergeReq.shapefileColumn.s))

\* C10: a feature whose key has a table row comes out with the union of its
\* attributes and the row's columns, the row's value on every name of the
\* row and its own value elsewhere; a feature whose key has no row comes out
\* as it went in.
C10_OverlayTableWins ==
  MergeDone =>
    /\ Len(mergeRes.features) = Len(mergeReq.features)
    /\ \A i \in 1..Len(mergeReq.features) :
         LET in == mergeReq.features[i]
             out == mergeRes.features[i]
         IN IF RowsOfFeature(i) # {}
            THEN \E k \in RowsOfFeature(i) :
                   /\ out.geometry = in.geometry
                   /\ DOMAIN out.properties
                        = DOMAIN in.properties \cup DOMAIN JoinRows[k]
                   /\ \A n \in DOMAIN JoinRows[k] : out.properties[n] = JoinRows[k][n]
                   /\ \A n \in DOMAIN in.properties \ DOMAIN JoinRows[k] :
                        out.properties[n] = in.properties[n]
            ELSE out = in

\* A merge with a matched feature that had its own Zn, now the row's, and an
\* unmatched feature.
C10_Witness ==
  /\ MergeDone
  /\ Len(mergeReq.features) = 2
  /\ RowsOfFeature(1) # {}
  /\ ColZn \in DOMAIN mergeReq.features[1].properties
  /\ mergeRes.features[1].properties[ColZn] # mergeReq.features[1].properties[ColZn]
  /\ RowsOfFeature(2) = {}
  /\ mergeRes.features[2] = mergeReq.features[2]

\* The greatest element of a non-empty set of positions.
Last(S) == CHOOSE k \in S : \A j \in S : j <= k

\* C11: when several rows of the join table normalize to the key of a
\* feature, the feature comes out overlaid with the one that is last in
\* table order.
C11_LastRecordWins ==
  MergeDone =>
    \A i \in 1..Len(mergeReq.features) :
      RowsOfFeature(i) # {} =>
        mergeRes.features[i].properties
          = Spread(mergeReq.features[i].properties, JoinRows[Last(RowsOfFeature(i))])

\* A merged feature whose key has two different rows in the join table.
C11_Witness ==
  /\ MergeDone
  /\ \E i \in 1..Len(mergeReq.features) :
       \E k1, k2 \in RowsOfFeature(i) :
         /\ k1 < k2
         /\ JoinRows[k1] # JoinRows[k2]
         /\ Overlaid(i)

\* A depth filter is supplied and the table has a depth column.
DepthFilterApplies ==
  /\ mergeReq.selectedDepth.t = "str"
  /\ Truthy(mergeReq.selectedDepth)
  /\ DepthColumns(mergeReq.spreadsheetData) # {}

TheDepthColumn == CHOOSE col \in DepthColumns(mergeReq.spreadsheetData) : TRUE

\* The row has a depth value and it normalizes to the normalized filter.
AtSelectedDepth(row) ==
  /\ Get(row, TheDepthColumn).t \in {"str", "num"}
  /\ ToLowerCase(StripCm(Trim(StringOf(Get(row, TheDepthColumn)))))
       = ToLowerCase(StripCm(Trim(mergeReq.selectedDepth.s)))

RowsAtSelectedDepth == SelectSeq(mergeReq.spreadsheetData, AtSelectedDepth)

\* The response of the end-to-end scenario: one merged feature carrying
\* Zn:1.2, matchedCount 1 and totalCount 1.
ScenarioHolds ==
  (mergeReq = ScenarioMergeRequest /\ mergeRes.status # 0) =>
    /\ mergeRes.status = 200
    /\ Len(mergeRes.features) = 1
    /\ Get(mergeRes.features[1].properties, ColZn) = Num(<<"1", ".", "2">>)
    /\ mergeRes.matchedCount = 1
    /\ mergeRes.totalCount = 1

\* C12: under a depth filter and with a depth column, the join is
\* made with exactly the rows whose depth value normalizes (trim, "cm"
\* removed, lower case) to the normalized filter, and the scenario request
\* gets its response.
C12_RetainsExactlyRowsAtDepth ==
  /\ (MergeDone /\ DepthFilterApplies) =>
       mergeRes.features
         = MergedFeatures(mergeReq.features,
                          SpreadsheetMap(RowsAtSelectedDepth, mergeReq.spreadsheetColumn.s),
                          mergeReq.shapefileColumn.s)
  /\ ScenarioHolds

\* A depth filter is supplied and the table has no depth column.
NoDepthColumn ==
  /\ mergeReq.selectedDepth.t = "str"
  /\ Truthy(mergeReq.selectedDepth)
  /\ DepthColumns(mergeReq.spreadsheetData) = {}

\* The response the same request gets when it carries no depth filter.
ResponseWithoutFilter == MergeHandler([mergeReq EXCEPT !.selectedDepth = Undef])

\* C13: under a depth filter and a table without depth column the merge
\* succeeds, the join is made with every row of the table, and the response
\* tells the caller that the filter found no column: it is not the response
\* of the request without filter.
C13_MissingDepthColumnIsSurfaced ==
  (mergeRes.status # 0 /\ NoDepthColumn) =>
    /\ mergeRes.status = 200
    /\ mergeRes.features
         = MergedFeatures(mergeReq.features,
                          SpreadsheetMap(mergeReq.spreadsheetData,
                                         mergeReq.spreadsheetColumn.s),
                          mergeReq.shapefileColumn.s)
    /\ mergeRes # ResponseWithoutFilter

(***************************************************************************)
(* Properties of /api/interpolate, checked under SpecInterpolate.          *)
(***************************************************************************)
ParamOf(w) == interpReq[workers[w].req].parameters[workers[w].idx]

WorkersOf(r) == {w \in DOMAIN workers : workers[w].req = r}

\* The worker has been spawned and none of its events has been handled.
InFlight(w) == workers[w].st \in {"running", "failing"}

\* A handler still has to run for the worker.
Pending(w) == workers[w].st \in {"running", "failing", "errored"}

\* The request was answered with its results.
Answered(r) == responses[r] # <<>> /\ responses[r][1].status = 200

\* This step ran the 'close' handler of worker w.
ClosedInStep(w) == workers[w].st # "closed" /\ workers'[w].st = "closed"

\* This step ran the 'error' handler of worker w.
ErroredInStep(w) == workers[w].st = "failing" /\ workers'[w].st = "errored"

\* This step handled a failure of worker w: launch failure, nonzero exit
\* code, or exit code 0 with the artifact missing.
FailedInStep(w) ==
  \/ ErroredInStep(w)
  \/ ClosedInStep(w) /\ ~(workers'[w].code = 0 /\ workers'[w].tiffSeen)

\* Every worker of the accepted request r has had all its handlers run.
AllHandled(r) ==
  /\ WorkersOf(r) # {}
  /\ \A w \in WorkersOf(r) : ~Pending(w)

\* C3: the handler of a failed worker records its parameter as failed with a
\* diagnostic text, then launches the worker of the next parameter, or
\* answers when it was the last one; once no handler is left to run the
\* request has been answered with an entry for every parameter.
C3_FailureDoesNotAbort ==
  [][ /\ \A w \in DOMAIN workers :
           FailedInStep(w) =>
             LET r == workers[w].req
                 idx == workers[w].idx
                 job == results'[r].interpolations[ParamOf(w)]
             IN /\ ~job.success
                /\ job.error # ""
                /\ IF idx < Len(interpReq[r].parameters)
                   THEN /\ Len(workers') = Len(workers) + 1
                        /\ workers'[Len(workers')].req = r
                        /\ workers'[Len(workers')].idx = idx + 1
                        /\ workers'[Len(workers')].st \in {"running", "failing"}
                   ELSE Answered(r)'
      /\ \A r \in Requests :
           AllHandled(r)' =>
             /\ Answered(r)'
             /\ \A k \in 1..Len(interpReq[r].parameters) :
                  interpReq[r].parameters[k]
                    \in DOMAIN responses'[r][1].body.interpolations
    ]_vars

\* Parameters [Zn, Cu]: the worker of Zn exited with code 1, the worker of
\* Cu succeeded, and the answer has Zn failed and Cu succeeded.
C3_Witness ==
  /\ interpReq[1].parameters = <<"Zn", "Cu">>
  /\ Len(workers) = 2
  /\ workers[1].st = "closed" /\ workers[1].code = 1
  /\ workers[2].st = "closed" /\ workers[2].code = 0 /\ workers[2].tiffSeen
  /\ Answered(1)
  /\ ~responses[1][1].body.interpolations["Zn"].success
  /\ responses[1][1].body.interpolations["Zn"].error # ""
  /\ responses[1][1].body.interpolations["Cu"].success

\* C4: at most one worker of a request is in flight at any time.
C4_OneWorkerAtATime ==
  \A r \in Requests : Cardinality({w \in WorkersOf(r) : InFlight(w)}) <= 1

\* C5: when the request has been answered, every requested parameter has a
\* worker that reached a terminal event, and the answer has an entry for it.
C5_AnswerAfterEveryParameter ==
  \A r \in Requests :
    Answered(r) =>
      \A k \in 1..Len(interpReq[r].parameters) :
        /\ interpReq[r].parameters[k] \in DOMAIN responses[r][1].body.interpolations
        /\ \E w \in WorkersOf(r) :
             workers[w].idx = k /\ workers[w].st \in {"errored", "closed"}

\* An answer for two parameters, one succeeded and one failed.
C5_Witness ==
  /\ Answered(1)
  /\ Len(interpReq[1].parameters) = 2
  /\ responses[1][1].body.interpolations["Zn"].success
  /\ ~responses[1][1].body.interpolations["Cu"].success

\* C6: while a worker of the request runs, the temporary input file exists
\* and holds the request's collection.
C6_TempFileDuringEveryWorker ==
  \A w \in DOMAIN workers : workers[w].st = "running" => tempFile = workers[w].req

\* C7: the 'close' handler records success exactly when the exit code is 0 and
\* the output artifact exists, with statistics min 0, max 1, mean 0.5 (in
\* quarters: 0, 4, 2) when the output has no STATS marker; the 'error'
\* handler records a failure.
C7_SuccessIffExitZeroAndArtifact ==
  [][ \A w \in DOMAIN workers :
        /\ ClosedInStep(w) =>
             LET job == results'[workers[w].req].interpolations[ParamOf(w)]
             IN /\ job.success <=> (workers'[w].code = 0 /\ workers'[w].tiffSeen)
                /\ (job.success /\ ~workers'[w].hasStats) =>
                     /\ job.statistics.min = 0
                     /\ job.statistics.max = 4
                     /\ job.statistics.mean = 2
        /\ ErroredInStep(w) =>
             ~results'[workers[w].req].interpolations[ParamOf(w)].success
    ]_vars

\* A worker exited with code 0, its artifact was there, it printed no STATS
\* marker, and the answer records the job as succeeded with the placeholder.
C7_Witness ==
  /\ Answered(1)
  /\ Len(workers) = 1
  /\ workers[1].st = "closed" /\ workers[1].code = 0
  /\ workers[1].tiffSeen /\ ~workers[1].hasStats
  /\ responses[1][1].body.interpolations["Zn"].success
  /\ responses[1][1].body.interpolations["Zn"].statistics.max = 4

(***************************************************************************)
(* Properties of detectCRS and of the upload handler, checked under        *)
(* SpecDetectCRS.                                                          *)
(***************************************************************************)
DetectDone == detected # NotDetected

\* The description has a UTM or Transverse_Mercator marker and a
\* 'Zone <n><N|S>' pattern.
HasZonePattern ==
  /\ prjString.t = "str"
  /\ HasUtmMarker(prjString.s)
  /\ ZoneMatches(prjString.s) # {}

\* C14: on a description with a UTM or Transverse_Mercator marker and a
\* 'Zone <n><N|S>' pattern, detectCRS returns EPSG:(32700+n) for S and
\* EPSG:(32600+n) for N, whatever other markers the description carries;
\* zone 21 S beside a SIRGAS marker gives EPSG:32721 and zone 5 n beside a
\* WGS84 marker gives EPSG:32605.
C14_ZoneGivesProjectedCode ==
  /\ (DetectDone /\ HasZonePattern) =>
       /\ HemisphereOf(prjString.s) \in {"N", "S"}
       /\ HemisphereOf(prjString.s) = "S"
            => detected = <<"E", "P", "S", "G", ":">> \o NumberToString(32700 + ZoneOf(prjString.s))
       /\ HemisphereOf(prjString.s) = "N"
            => detected = <<"E", "P", "S", "G", ":">> \o NumberToString(32600 + ZoneOf(prjString.s))
  /\ (DetectDone /\ prjString = Str(<<"S", "I", "R", "G", "A", "S", "U", "T", "M", "Z", "o", "n", "e", "_", "2", "1", "S">>)) => detected = <<"E", "P", "S", "G", ":", "3", "2", "7", "2", "1">>
  /\ (DetectDone /\ prjString = Str(<<"W", "G", "S", "8", "4", "U", "T", "M", "z", "o", "n", "e", " ", "5", "n">>)) => detected = <<"E", "P", "S", "G", ":", "3", "2", "6", "0", "5">>

\* detectCRS has answered EPSG:32721 on a description that carries a regional
\* marker beside the UTM marker and the zone.
C14_Witness ==
  /\ DetectDone
  /\ HasZonePattern
  /\ HasRegionalMarker(prjString.s)
  /\ ZoneOf(prjString.s) = 21
  /\ HemisphereOf(prjString.s) = "S"
  /\ detected = EPSG32721

\* No projection description is supplied.
NoDescription == ~Truthy(prjString)

\* C15: without a projection description the CRS is resolved to EPSG:4674,
\* by detectCRS and by the upload handler.
C15_NoDescriptionGivesRegionalDefault ==
  NoDescription =>
    /\ DetectDone => detected = EPSG4674
    /\ uploadRes.status = 200 => uploadRes.detectedCRS = EPSG4674

\* C16: detectCRS answers every description, and its answer is that of the
\* first rule that applies: (1) UTM or Transverse_Mercator marker: the
\* projected code of the zone, the sentinel 'UTM' when there is no zone;
\* (2) regional marker: EPSG:4674; (3) global marker without UTM and without
\* PROJCS: EPSG:4326; (4) PROJCS: the sentinel 'PROJECTED'; (5) otherwise
\* EPSG:4674.
C16_PriorityCascade ==
  (DetectDone /\ prjString.t = "str" /\ prjString.s # <<>>) =>
    LET s == prjString.s
    IN IF Includes(s, MarkerUTM) \/ Includes(s, MarkerTransverseMercator)
       THEN /\ detected \notin {EPSG4674, EPSG4326, SentinelProjected}
            /\ detected = SentinelUTM <=> ZoneMatches(s) = {}
       ELSE IF Includes(s, MarkerSirgas) \/ Includes(s, Marker4674)
               \/ Includes(s, MarkerGcsSirgas)
       THEN detected = EPSG4674
       ELSE IF /\ Includes(s, MarkerWGS84) \/ Includes(s, Marker4326)
                    \/ Includes(s, MarkerGcsWgs)
               /\ ~Includes(s, MarkerPROJCS)
       THEN detected = EPSG4326
       ELSE IF Includes(s, MarkerPROJCS) THEN detected = SentinelProjected
       ELSE detected = EPSG4674

\* detectCRS has answered a description that carries a regional and a global
\* marker and no UTM marker.
C16_Witness ==
  /\ DetectDone
  /\ prjString.t = "str"
  /\ ~HasUtmMarker(prjString.s)
  /\ HasRegionalMarker(prjString.s)
  /\ HasGlobalMarker(prjString.s)
  /\ detected = EPSG4674

(***************************************************************************)
(* Properties of reprojectGeoJSON, checked under SpecReproject.            *)
(***************************************************************************)
ReprojDone == reprojOut.done

\* The positions of the input collection that have no NaN component.
RealPositions ==
  UNION {FeatureCalls(reprojIn.features[i]) : i \in DOMAIN reprojIn.features}

\* The call returned its input and handed no position to a transform.
ReturnedInput ==
  /\ ~reprojOut.raised
  /\ reprojOut.features = reprojIn.features
  /\ reprojOut.calls = {}

\* C17 as stated: the call returns its input, no position transformed, when
\* from equals to, or to is EPSG:4326 and from is EPSG:4326 or EPSG:4674.
C17_NoOpWhenAlreadyGeographic ==
  (/\ ReprojDone
   /\ \/ reprojIn.fromCRS = Str(reprojIn.toCRS)
      \/ /\ reprojIn.toCRS = EPSG4326
         /\ reprojIn.fromCRS \in {Str(EPSG4326), Str(EPSG4674)})
    => ReturnedInput

\* C17 amended: the call returns its input, no position transformed, when
\* from equals to or from is the global code ('EPSG:4326' or '4326'); from
\* EPSG:4674 to EPSG:4326 a transform is created and every position without
\* NaN is handed to it.
C17_NoOpWhenSameOrFromGlobal ==
  /\ (/\ ReprojDone
      /\ \/ reprojIn.fromCRS = Str(reprojIn.toCRS)
         \/ reprojIn.fromCRS \in {Str(EPSG4326), Str(<<"4", "3", "2", "6">>)})
       => ReturnedInput
  /\ (/\ ReprojDone
      /\ reprojIn.proj4Loaded
      /\ reprojIn.fromCRS = Str(EPSG4674)
      /\ reprojIn.toCRS = EPSG4326)
       => (reprojOut.applied /\ reprojOut.calls = RealPositions)

\* A collection with a position has been returned as it was by a call from
\* EPSG:4326 to another CRS.
C17_Witness ==
  /\ ReprojDone
  /\ reprojIn.fromCRS = Str(EPSG4326)
  /\ reprojIn.toCRS # EPSG4326
  /\ RealPositions # {}
  /\ ReturnedInput

\* C18: when no transform can be created for the identifier (no definition,
\* a sentinel of detectCRS, not a string), the call raises nothing and
\* returns its input.
C18_ConstructionFailureReturnsInput ==
  (ReprojDone /\ reprojIn.proj4Loaded /\ reprojIn.fromCRS \in UnsupportedIdentifiers)
    => ReturnedInput

\* A collection with a position has been returned as it was by a call from
\* a UTM zone proj4 has no definition for.
C18_Witness ==
  /\ ReprojDone
  /\ reprojIn.fromCRS = Str(<<"E", "P", "S", "G", ":", "3", "2", "7", "2", "2">>)
  /\ RealPositions # {}
  /\ ReturnedInput

\* What a position may come out as: itself when it has NaN, when the
\* transform throws on it or returns NaN; else the pair the transform
\* returned, in either order.
PositionConforms(out, in) ==
  IF IsNaN(in[1]) \/ IsNaN(in[2]) THEN out = in
  ELSE LET transformed == ForwardOf(reprojIn.forward, in)
       IN IF transformed.throws THEN out = in
          ELSE IF IsNaN(transformed.xy[1]) \/ IsNaN(transformed.xy[2]) THEN out = in
          ELSE out \in {transformed.xy, <<transformed.xy[2], transformed.xy[1]>>}

RECURSIVE CoordinatesConform(_, _)
CoordinatesConform(out, in) ==
  /\ out.kind = in.kind
  /\ IF in.kind = "position" THEN PositionConforms(out.xy, in.xy)
     ELSE /\ Len(out.items) = Len(in.items)
          /\ \A i \in DOMAIN in.items : CoordinatesConform(out.items[i], in.items[i])

\* C19: the call returns as many features as it was given, in order; a
\* feature without geometry or coordinates comes out as it was; where a
\* transform was applied every geometry keeps its nesting and its number of
\* positions, a position with NaN, or on which the transform throws or
\* returns NaN, is the original pair, and every other position is transformed.
C19_CardinalityPreserved ==
  (ReprojDone /\ ~reprojOut.raised) =>
    /\ Len(reprojOut.features) = Len(reprojIn.features)
    /\ \A i \in DOMAIN reprojIn.features :
         IF /\ reprojOut.applied
            /\ reprojIn.features[i].hasGeometry
            /\ reprojIn.features[i].hasCoordinates
         THEN /\ reprojOut.features[i].hasGeometry
              /\ reprojOut.features[i].hasCoordinates
              /\ CoordinatesConform(reprojOut.features[i].coordinates,
                                    reprojIn.features[i].coordinates)
         ELSE reprojOut.features[i] = reprojIn.features[i]

\* A transform was applied to two features: the first, a point with NaN,
\* came out as it was and the second came out transformed.
C19_Witness ==
  /\ ReprojDone
  /\ reprojOut.applied
  /\ Len(reprojIn.features) = 2
  /\ reprojIn.features[1].coordinates = Position(Real(500000), NaN)
  /\ reprojOut.features[1] = reprojIn.features[1]
  /\ reprojOut.features[2] # reprojIn.features[2]

\* Longitude in [-180, 180] and latitude in [-90, 90].
InRange(xy) ==
  /\ ~IsNaN(xy[1])
  /\ ~IsNaN(xy[2])
  /\ ~AbsAbove(xy[1], 180)
  /\ ~AbsAbove(xy[2], 90)

RECURSIVE AllInRange(_)
AllInRange(coords) ==
  IF coords.kind = "position" THEN InRange(coords.xy)
  ELSE \A i \in DOMAIN coords.items : AllInRange(coords.items[i])

\* C20: after a call to EPSG:4326 in which a transform was applied, every
\* position of the returned collection has its longitude in [-180, 180] and
\* its latitude in [-90, 90].
C20_OutputInGeographicRange ==
  (ReprojDone /\ reprojOut.applied /\ reprojIn.toCRS = EPSG4326) =>
    \A i \in DOMAIN reprojOut.features :
      (reprojOut.features[i].hasGeometry /\ reprojOut.features[i].hasCoordinates)
        => AllInRange(reprojOut.features[i].coordinates)


(***************************************************************************)
(* Further properties of /api/interpolate, checked under SpecInterpolate.  *)
(***************************************************************************)
\* The entry of an object for a key: <<value>>, or <<>> when it has none.
Entry(obj, p) == IF p \in DOMAIN obj THEN <<obj[p]>> ELSE <<>>

ParameterNames == {AllParameters[k] : k \in DOMAIN AllParameters}

\* The parameters of request r whose outcome a handler records in this step.
RecordedInStep(r) ==
  {ParamOf(w) : w \in {v \in WorkersOf(r) : ClosedInStep(v) \/ ErroredInStep(v)}}

\* C21: a step of a request in progress changes the Job Result and the
\* artifact reference of no parameter other than the one whose outcome it
\* records; what was recorded for the other parameters stays as it was,
\* also when the recorded outcome is a failure.
C21_RecordingTouchesOneParameter ==
  [][ \A r \in Requests : \A p \in ParameterNames :
        (interpReq[r].arrived /\ p \notin RecordedInStep(r)) =>
          /\ Entry(results'[r].interpolations, p) = Entry(results[r].interpolations, p)
          /\ Entry(results'[r].tiffFiles, p) = Entry(results[r].tiffFiles, p)
    ]_vars

\* The second parameter failed to launch after the first one succeeded, and
\* the first one's Job Result and artifact reference are still recorded.
C21_Witness ==
  /\ Len(interpReq[1].parameters) = 2
  /\ \E w \in WorkersOf(1) : workers[w].idx = 2 /\ workers[w].st = "errored"
  /\ "Cu" \in DOMAIN results[1].interpolations
  /\ ~results[1].interpolations["Cu"].success
  /\ "Zn" \in DOMAIN results[1].interpolations
  /\ results[1].interpolations["Zn"].success
  /\ Entry(results[1].tiffFiles, "Zn") = <<results[1].interpolations["Zn"].tiffFile>>


\* C25: within one request, no position of the parameter list has more than
\* one worker launched for it, and by the time the request is answered every
\* position has exactly one.
C25_EachPositionLaunchedOnce ==
  \A r \in Requests : \A k \in 1..Len(interpReq[r].parameters) :
    LET launched == {w \in WorkersOf(r) : workers[w].idx = k}
    IN /\ Cardinality(launched) <= 1
       /\ Answered(r) => Cardinality(launched) = 1

\* The number of times res.json(results) was called for request r: the
\* answer that was sent, and the call on the answered request that throws.
JsonCalls(r) == Len(responses[r]) + (IF crashed /\ Answered(r) THEN 1 ELSE 0)

\* C27: an accepted request is answered at most once, whatever terminal
\* events its workers emit: res.json is never called on an answered request.
C27_ExactlyOneResponse ==
  \A r \in Requests : interpReq[r].arrived => JsonCalls(r) <= 1

\* C29: in the answer, tiffFiles has an entry for a parameter exactly when
\* the parameter's Job Result has success = true, and the entry is the
\* tiffFile of that Job Result.
C29_ArtifactReferenceIffSuccess ==
  \A r \in Requests :
    Answered(r) =>
      LET body == responses[r][1].body
      IN \A p \in ParameterNames :
           /\ p \in DOMAIN body.tiffFiles <=>
                (p \in DOMAIN body.interpolations /\ body.interpolations[p].success)
           /\ p \in DOMAIN body.tiffFiles =>
                body.tiffFiles[p] = body.interpolations[p].tiffFile


(***************************************************************************)
(* Input errors and directories, checked under SpecInputErrors and         *)
(* SpecInterpolate.                                                        *)
(***************************************************************************)
\* The /api/merge request lacks the table, the collection or a join column.
MergeInputError(req) ==
  \/ ~req.hasData
  \/ ~req.hasGeoJson
  \/ req.spreadsheetColumn \in {Undef, Null, Str(<<>>)}
  \/ req.shapefileColumn \in {Undef, Null, Str(<<>>)}

\* The /api/interpolate body has every field and a non-empty parameter array.
PassesValidation(body) ==
  /\ body.fields = FieldNames
  /\ body.parametersIsArray
  /\ Len(body.parameters) > 0

\* The request r arrives in this step.
ArrivesInStep(r) == ~interpReq[r].arrived /\ interpReq'[r].arrived

\* C23: a request rejected as an input error does no partial processing.
\* /api/merge with the table, the collection or a join column missing
\* answers an error that carries no merged feature and no count;
\* /api/interpolate with a field missing or with an empty or non-array
\* parameter list answers an error in the step it arrives, and that step
\* writes no temporary file, creates no directory and launches no worker.
C23_InputErrorDoesNothing ==
  [][ /\ (mergeRes.status = 0 /\ mergeRes'.status # 0 /\ MergeInputError(mergeReq)) =>
           /\ mergeRes'.status = 400
           /\ mergeRes'.features = <<>>
           /\ mergeRes'.matchedCount = 0 /\ mergeRes'.totalCount = 0
      /\ \A r \in Requests :
           (ArrivesInStep(r) /\ ~PassesValidation(interpReq'[r])) =>
             /\ Len(responses'[r]) = 1 /\ responses'[r][1].status = 400
             /\ tempFile' = tempFile
             /\ dirs' = dirs
             /\ workers' = workers
             /\ results' = results
    ]_vars

\* Both handlers have rejected a request: the merge one that carried a
\* feature, the interpolation one on a deployment where uploads/ exists.
C23_Witness ==
  /\ mergeRes.status = 400
  /\ mergeReq.features # <<>>
  /\ ~Truthy(mergeReq.shapefileColumn)
  /\ interpReq[1].arrived /\ ~PassesValidation(interpReq[1])
  /\ responses[1] # <<>> /\ responses[1][1].status = 400
  /\ "uploads" \in dirs /\ tempFile = 0 /\ workers = <<>>

\* C24: a request that passes validation finds or creates the directory it
\* writes into: in the step it arrives its temporary file is written into
\* uploads/, also when no upload came before it.
C24_DirectoryCreatedBeforeWrite ==
  [][ \A r \in Requests :
        (ArrivesInStep(r) /\ PassesValidation(interpReq'[r])) =>
          /\ "uploads" \in dirs'
          /\ tempFile' = r
    ]_vars


(***************************************************************************)
(* Two concurrent requests, checked under SpecConcurrent.                  *)
(***************************************************************************)
\* The request r is answered with its results in this step.
AnsweredInStep(r) == responses[r] = <<>> /\ responses'[r] # <<>> /\ responses'[r][1].status = 200

\* C26: nothing coordinates two requests on the temporary file.  A request
\* that passes validation overwrites the file with its own collection in the
\* step it arrives, and a request that is answered removes the file, in both
\* cases whatever workers of the other request are running.
C26_NoCoordinationOnTempFile ==
  [][ \A r \in Requests :
        /\ (ArrivesInStep(r) /\ PassesValidation(interpReq'[r]) /\ "uploads" \in dirs)
             => tempFile' = r
        /\ AnsweredInStep(r) => tempFile' = 0
    ]_vars

\* A worker of request 1 that was launched runs while the file holds the
\* collection of request 2.
C26_Witness ==
  \E w \in WorkersOf(1) :
    /\ workers[w].st = "running"
    /\ interpReq[2].arrived
    /\ tempFile = 2

\* A worker of request 1 runs after request 2, none of whose workers failed
\* to launch, has removed the file.
C26_RemovedUnderWorker ==
  \E w \in WorkersOf(1) :
    /\ workers[w].st = "running"
    /\ \A v \in DOMAIN workers : workers[v].st \in {"running", "closed"} /\ workers[v].code >= 0
    /\ Answered(2)
    /\ tempFile = 0


(***************************************************************************)
(* Properties of /api/generate-report, checked under SpecReport.           *)
(***************************************************************************)
\* The timer's callback runs in this step.
TimerFires == reportTimer = "armed" /\ reportTimer' = "fired"

\* C22: when the timer fires on a worker that has not exited, the worker is
\* killed and the request is answered with a failure; when it fires after
\* the worker exited, it changes nothing of the request, of its response or
\* of the server.
C22_TimeoutOnlyWhileWorkerRuns ==
  [][ TimerFires =>
        /\ reportWorker.st = "running" =>
             /\ reportWorker'.st = "killed"
             /\ reportCalls' = <<ReportAnswer(500, "Timeout ao gerar PDF")>>
        /\ reportWorker.st # "running" =>
             /\ reportCalls' = reportCalls
             /\ reportWorker' = reportWorker
             /\ crashed' = crashed
    ]_vars

\* C28: a request that launched the worker is answered at most once,
\* whatever the order of 'close', 'error' and the timer: res.send / res.json
\* is never called on an answered request.
C28_ReportAnsweredOnce ==
  reportWorker.st # "none" => Len(reportCalls) <= 1

(***************************************************************************)
(* Properties of the router, checked under SpecRoutes.                     *)
(***************************************************************************)
\* C30: a POST to /api/cleanup is answered by the cleanup handler, with
\* success, after uploads/ and output/ were emptied, and not by the
\* not-found handler of /api/*.
C30_CleanupIsReached ==
  (routeRes.status # 0 /\ routeReq = [method |-> "POST", path |-> <<"api", "cleanup">>]) =>
    /\ routeRes.handler = "cleanup"
    /\ routeRes.status = 200 /\ routeRes.success
    /\ tempFile = 0
    /\ tiffs = {}

====
